---- MODULE Spec2Model ----
(***************************************************************************)
(* FaceFrame: the frame matcher DatabaseStorage.searchFrames (the scoring  *)
(* strategy of the storage layer) over the frames table of shared/schema.  *)
(*                                                                         *)
(* Scores are kept in tenths of a point (Scale): every score the code can  *)
(* compute is k + min(stockCount/10, 5) with k a multiple of 5 and         *)
(* stockCount an integer, so score * 10 is an integer, and two such        *)
(* doubles compare exactly as the tenths do (distinct values differ by at  *)
(* least 0.1, and equal values are computed by the same additions).        *)
(***************************************************************************)
EXTENDS Integers, Sequences, FiniteSets, TLC

\* ------------------------------------------------------------------ bounds
\* rows in the frames table
MaxFrames == 3
\* largest explicit limit argument of a call
MaxLimit == 2

\* largest stock_count of a row of the stock catalogs
MaxStockCount == 52

\* rows of the largest shelf catalog
MaxShelf == 6

\* ------------------------------------------------- nullable column values
\* A nullable column / optional argument: Null, or Some(v).
Null == <<>>
Some(v) == <<v>>

\* ------------------------------------------------------------- vocabulary
\* tenths of a score point
Scale == 10
\* limit: number = 5
DefaultLimit == 5
\* parseInt(req.query.limit as string) || 5
RouteDefaultLimit == 5
\* const maxRetries = 3
maxRetries == 3

\* The vocabularies the catalog columns and the classification draw from.
FaceShapes == {"oval", "round", "square", "heart", "diamond", "oblong"}
FrameSizes == {"Small", "Medium", "Large"}
FrameColors == {"Black", "Blue", "Gold", "Tortoise"}
FrameStyles == {"Aviator", "Cat-eye", "Rectangle", "Round", "Square"}
StockStatuses == {"in_stock", "low_stock", "out_of_stock", "order_only"}

\* One row of the frames table (the columns searchFrames reads, the key and
\* one column it only passes through).
Row(id, name, style, color, size, shapes, status, count, active) ==
    [id |-> id, name |-> name, style |-> style, color |-> color, size |-> size,
     suitableFaceShapes |-> shapes, stockStatus |-> status,
     stockCount |-> count, isActive |-> active]

\* The three products of the seeded scenario.
FrameA == Row("A", "Classic Aviator", "Aviator", "Gold", "Medium",
              Some(<<"oval">>), "in_stock", Some(25), Some(TRUE))
FrameB == Row("B", "Wayfarer Black", "Rectangle", "Black", "Large",
              Some(<<"round">>), "in_stock", Some(18), Some(TRUE))
FrameC == Row("C", "Round Vintage", "Round", "Tortoise", "Small",
              Some(<<"oval">>), "in_stock", Some(12), Some(TRUE))

\* The rows a catalog is drawn from: the three products of the seeded
\* scenario, the first one varied in one column at a time, and the extremes
\* of stock and of nullable columns.
FrameUniverse ==
    { FrameA, FrameB, FrameC,
      Row("Ash", "Aviator other shape", "Aviator", "Gold", "Medium",
          Some(<<"round">>), "in_stock", Some(25), Some(TRUE)),
      Row("Asz", "Aviator other size", "Aviator", "Gold", "Large",
          Some(<<"oval">>), "in_stock", Some(25), Some(TRUE)),
      Row("Aco", "Aviator other color", "Aviator", "Black", "Medium",
          Some(<<"oval">>), "in_stock", Some(25), Some(TRUE)),
      Row("Ast", "Aviator other style", "Rectangle", "Gold", "Medium",
          Some(<<"oval">>), "in_stock", Some(25), Some(TRUE)),
      Row("Alo", "Aviator low stock", "Aviator", "Gold", "Medium",
          Some(<<"oval">>), "low_stock", Some(25), Some(TRUE)),
      Row("Aou", "Aviator out of stock", "Aviator", "Gold", "Medium",
          Some(<<"oval">>), "out_of_stock", Some(25), Some(TRUE)),
      Row("P", "Aviator sold out", "Aviator", "Gold", "Medium",
          Some(<<"oval">>), "out_of_stock", Some(0), Some(TRUE)),
      Row("Z", "Wayfarer deep stock", "Rectangle", "Black", "Large",
          Some(<<"round">>), "in_stock", Some(60), Some(TRUE)),
      Row("If", "Aviator retired", "Aviator", "Gold", "Medium",
          Some(<<"oval">>), "in_stock", Some(25), Some(FALSE)),
      Row("In", "Aviator unset", "Aviator", "Gold", "Medium",
          Some(<<"oval">>), "in_stock", Some(25), Null),
      Row("N", "Round on order", "Round", "Tortoise", "Small",
          Null, "order_only", Null, Some(TRUE)) }

\* FrameSearchCriteria
Criteria(faceShape, sizes, colors, styles) ==
    [faceShape |-> faceShape, recommendedSizes |-> sizes,
     recommendedColors |-> colors, recommendedStyles |-> styles]

\* The classification of the seeded scenario.
ScenarioCriteria ==
    Criteria("oval", <<"Medium", "Small">>, <<"Gold", "Tortoise">>,
             <<"Aviator", "Round">>)

\* The criteria a call is made with: the seeded scenario, a second
\* classification, the empty record, tokens that differ in case, and one
\* that several rows match in a single factor only.
CriteriaUniverse ==
    { ScenarioCriteria,
      Criteria("round", <<"Large", "Medium">>, <<"Black", "Tortoise">>,
               <<"Rectangle", "Aviator">>),
      Criteria("", <<>>, <<>>, <<>>),
      Criteria("Oval", <<"medium">>, <<"gold", "Tortoise">>, <<"aviator">>),
      Criteria("heart", <<"Medium">>, <<"Black">>, <<"Square">>) }

\* The criteria both strategies of searchFrames are called with: the seeded
\* scenario as the later schema has it (recommendedSizes), as the earlier
\* one had it (one recommendedSize), with both properties, and the empty
\* criteria.
StrategyCriteria ==
    { ScenarioCriteria,
      [faceShape |-> "oval", recommendedSize |-> "Medium",
       recommendedColors |-> <<"Gold", "Tortoise">>,
       recommendedStyles |-> <<"Aviator", "Round">>],
      [faceShape |-> "oval", recommendedSize |-> "Medium",
       recommendedSizes |-> <<"Medium">>,
       recommendedColors |-> <<"Gold", "Tortoise">>,
       recommendedStyles |-> <<"Aviator", "Round">>],
      Criteria("", <<>>, <<>>, <<>>) }

\* The limit arguments of a call: omitted, or a number.
LimitArgs == {Null} \cup {Some(n) : n \in -1..MaxLimit}

\* The contents the frames table can have.
Catalogs == {S \in SUBSET FrameUniverse : Cardinality(S) <= MaxFrames}

\* The invocations of searchFrames: two, so that they can run concurrently.
CallIds == {1, 2}

\* The row of the universe with this key.
RowById(id) == CHOOSE f \in FrameUniverse : f.id = id

\* The active rows of the universe, in the order they are put on the shelf.
ShelfIds == <<"A", "B", "C", "Z", "N", "P", "Alo", "Aou", "Ash", "Asz", "Aco", "Ast">>

\* The catalogs of the first k active rows: up to more rows than the default
\* limit.
ShelfCatalogs == {{RowById(ShelfIds[i]) : i \in 1..k} : k \in 0..MaxShelf}

\* The arguments of the concurrent calls: two classifications, and the
\* limit omitted or 1.
ConcurrentCriteria ==
    { ScenarioCriteria,
      Criteria("round", <<"Large", "Medium">>, <<"Black", "Tortoise">>,
               <<"Rectangle", "Aviator">>) }
ConcurrentLimits == {Null, Some(1)}

\* The catalogs the concurrent calls start on: the first rows of the shelf.
ConcurrentCatalogs == {{RowById(ShelfIds[i]) : i \in 1..k} : k \in 0..MaxFrames}

\* The decimal digits, and the digits of radix 16 after them.
DigitChars == <<"0", "1", "2", "3", "4", "5", "6", "7", "8", "9",
                "a", "b", "c", "d", "e", "f">>

\* The decimal string of a number from 1 to 9.
DecimalString(n) == <<DigitChars[n + 1]>>

\* The values of the limit query parameter, as arrays of characters: empty,
\* zero, negative, a fraction, no number, a number followed by a letter, and
\* the numbers from 1 on.
QueryLimitStrings ==
    { <<>>, <<"0">>, <<"-", "1">>, <<"1", ".", "5">>, <<"x">>, <<"2", "x">> }
    \cup {DecimalString(n) : n \in 1..MaxLimit}

\* req.query.limit: undefined, or a string
QueryLimits == {Null} \cup {Some(str) : str \in QueryLimitStrings}

\* The request bodies: the empty criteria, the scenario's criteria with a key
\* the schema does not have, and a record with the single recommendedSize of
\* the earlier client in place of recommendedSizes.
RequestBodies ==
    { Criteria("", <<>>, <<>>, <<>>),
      [faceShape |-> "oval", recommendedSizes |-> <<"Medium", "Small">>,
       recommendedColors |-> <<"Gold", "Tortoise">>,
       recommendedStyles |-> <<"Aviator", "Round">>, confidence |-> "0.9"],
      [faceShape |-> "oval", recommendedSize |-> "Medium",
       recommendedColors |-> <<"Gold", "Tortoise">>,
       recommendedStyles |-> <<"Aviator", "Round">>] }

\* FacialAnalysis as the retrying analyzeFacialFeatures declares it: one
\* recommendedSize. The confidence is in hundredths.
FacialAnalysis(faceShape, size, colors, styles, confidence, reasoning) ==
    [faceShape |-> faceShape, recommendedSize |-> size,
     recommendedColors |-> colors, recommendedStyles |-> styles,
     confidence |-> confidence, reasoning |-> reasoning]

\* The record returned after the loop, when no attempt returned.
FallbackAnalysis ==
    FacialAnalysis("oval", "Medium", <<"Black", "Tortoise">>,
                   <<"Rectangle", "Aviator">>, 50,
                   "API temporarily unavailable.")

\* The objects the model's JSON can denote that pass the validation: every
\* face shape with every size.
GenuineAnalyses ==
    { FacialAnalysis(shape, size, <<"Gold", "Tortoise">>, <<"Aviator", "Round">>,
                     90, "Balanced proportions.") :
        shape \in FaceShapes, size \in FrameSizes }

\* response.text: absent, text that is no JSON, the JSON null, or the JSON
\* of an object: one that passes the validation, one with an empty faceShape,
\* one with recommendedSizes in place of recommendedSize.
ResponseTexts ==
    { [kind |-> "empty"], [kind |-> "not json"], [kind |-> "null"] }
    \cup {[kind |-> "object", value |-> a] : a \in GenuineAnalyses}
    \cup { [kind |-> "object",
            value |-> FacialAnalysis("", "Medium", <<"Gold">>, <<"Round">>, 90, "")],
           [kind |-> "object",
            value |-> [faceShape |-> "oval", recommendedSizes |-> <<"Medium", "Small">>,
                       recommendedColors |-> <<"Gold", "Tortoise">>,
                       recommendedStyles |-> <<"Aviator", "Round">>,
                       confidence |-> 90, reasoning |-> ""]] }

\* An error object: its status property (Null: it has none) and the words
\* of its message.
Error(status, message) == [status |-> status, message |-> message]

\* The errors analyzeFacialFeatures throws in its try block.
EmptyResponse == Error(Null, <<"Empty", "response", "from", "Gemini", "model">>)
InvalidFormat == Error(Null, <<"Invalid", "response", "format", "from", "Gemini", "model">>)
\* The errors JSON.parse and a property read of null throw.
SyntaxError == Error(Null, <<"Unexpected", "token">>)
TypeError == Error(Null, <<"Cannot", "read", "properties", "of", "null">>)

\* The errors ai.models.generateContent rejects with: 503 with and without
\* the word overloaded, UNAVAILABLE without a status, overloaded under
\* another status, a quota error and a network error.
ApiErrors ==
    { Error(Some(503), <<"The", "model", "is", "overloaded">>),
      Error(Some(503), <<"Service", "Unavailable">>),
      Error(Null, <<"14", "UNAVAILABLE", "connection", "reset">>),
      Error(Some(500), <<"The", "model", "is", "overloaded">>),
      Error(Some(429), <<"RESOURCE_EXHAUSTED">>),
      Error(Null, <<"fetch", "failed">>) }

\* FacialAnalysis as the analyzeFacialFeatures that throws declares it: two
\* recommendedSizes. The confidence is in hundredths.
FacialAnalysisSizes(faceShape, sizes, colors, styles, confidence, reasoning) ==
    [faceShape |-> faceShape, recommendedSizes |-> sizes,
     recommendedColors |-> colors, recommendedStyles |-> styles,
     confidence |-> confidence, reasoning |-> reasoning]

\* The classification of the seeded scenario as analyzeFacialFeatures
\* returns it.
ScenarioAnalysis ==
    FacialAnalysisSizes("oval", <<"Medium", "Small">>, <<"Gold", "Tortoise">>,
                        <<"Aviator", "Round">>, 90, "Balanced proportions.")

\* The objects that analyzeFacialFeatures returns to the route.
RouteAnalyses ==
    { ScenarioAnalysis,
      FacialAnalysisSizes("round", <<"Large", "Medium">>, <<"Black", "Tortoise">>,
                          <<"Rectangle", "Aviator">>, 70, "Soft jawline."),
      FacialAnalysisSizes("heart", <<"Small", "Medium">>, <<"Blue", "Black">>,
                          <<"Cat-eye", "Square">>, 80, "Wide forehead.") }

\* The catalogs POST /api/analyze-face is served on: the shelf catalogs of
\* at most MaxFrames rows.
AnalyzeCatalogs == {S \in ShelfCatalogs : Cardinality(S) <= MaxFrames}

\* req.body.sessionId: absent, or the client's.
SessionIds == {Null, Some("session-1")}

\* The values randomUUID() returns.
RandomUUIDs == {"uuid-1", "uuid-2"}

\* How the generateContent call of generateVirtualTryOn settles: it resolves
\* with an image part, it resolves without one, or it rejects.
TryOnResponses == {"image", "text", "rejects"}

\* The catalogs the try-on loop is run on: the shelf catalogs, up to more
\* rows than the five the route asks the matcher for.
TryOnCatalogs == ShelfCatalogs

\* The values of the stock_count column: null, or an integer.
StockCounts == {Null} \cup {Some(n) : n \in -1..MaxStockCount}

\* The catalogs of one active row with the attributes of frame A and any
\* stock status and stock count.
StockCatalogs ==
    { {Row("S", "Aviator in any stock", "Aviator", "Gold", "Medium",
           Some(<<"oval">>), status, count, Some(TRUE))} :
        status \in StockStatuses, count \in StockCounts }

\* ------------------------------------------------------------------ state
VARIABLES
    frames,        \* the frames table: a set of rows
    pc,            \* pc[c]: where invocation c of searchFrames is
    criteria,      \* criteria[c]: its criteria argument
    limit,         \* limit[c]: its limit parameter, the default applied
    allFrames,     \* allFrames[c]: the rows its query returned, in order
    scoredFrames,  \* scoredFrames[c]: the rows with their matchScore
    result,        \* result[c]: the frames it returned
    req,           \* the request being served (Null: none)
    rpc,           \* where the route handler serving req is
    res,           \* the responses the handler has sent, in order
    analysis,      \* the handler's analysis constant (Null: not yet set)
    analysisResults, \* the analysis_results table: the rows inserted, in order
    framesWithTryOn, \* the handler's framesWithTryOn array
    apc,           \* where the invocation of analyzeFacialFeatures is
    attempt,       \* its loop counter
    lastError,     \* the error its catch block stored last (Null: none)
    generated,     \* the calls of ai.models.generateContent it has made
    returned,      \* the value it returned (Null: none yet)
    delays,        \* the arguments of its calls of delay, in ms, in order
    currentStep,   \* Home: the step of the wizard
    capturedPhoto, \* Home: the captured file (Null: null)
    photoUrl,      \* Home: the object URL of the photo, as an array of words
    analysisResult, \* Home: the analysis of the last response (Null: null)
    recommendedFrames, \* Home: the frames of the last response
    inFlight,      \* Home: the analyze-face requests of the mutation in flight
    pendingBlobs,  \* CameraInterface: the canvas.toBlob callbacks in flight
    now            \* the database clock: the index of the current instant

\* the state searchFrames works on
searchVars == <<frames, pc, criteria, limit, allFrames, scoredFrames, result>>
\* the state of the route handlers
routeVars == <<req, rpc, res, analysis, analysisResults, framesWithTryOn>>
\* the state of analyzeFacialFeatures
geminiVars == <<apc, attempt, lastError, generated, returned, delays>>

\* the state of the Home page and of its CameraInterface
homeVars == <<currentStep, capturedPhoto, photoUrl, analysisResult,
              recommendedFrames, inFlight, pendingBlobs>>

vars == <<searchVars, routeVars, geminiVars, homeVars, now>>

\* ---------------------------------------------------------------- helpers
Min(a, b) == IF a < b THEN a ELSE b
Max(a, b) == IF a > b THEN a ELSE b

\* String.prototype.toLowerCase on the tokens that have an upper-case letter.
ToLowerCase(s) ==
    CASE s = "Oval" -> "oval"
      [] s = "Small" -> "small"
      [] s = "Medium" -> "medium"
      [] s = "Large" -> "large"
      [] s = "Black" -> "black"
      [] s = "Blue" -> "blue"
      [] s = "Gold" -> "gold"
      [] s = "Tortoise" -> "tortoise"
      [] s = "Aviator" -> "aviator"
      [] s = "Cat-eye" -> "cat-eye"
      [] s = "Rectangle" -> "rectangle"
      [] s = "Round" -> "round"
      [] s = "Square" -> "square"
      [] OTHER -> s

\* A membership test that ignores letter case.
IncludesIgnoreCase(arr, v) ==
    \E i \in DOMAIN arr : ToLowerCase(arr[i]) = ToLowerCase(v)

\* Array.prototype.includes on an array of strings (strict equality).
Includes(arr, v) == \E i \in DOMAIN arr : arr[i] = v

\* frame.suitableFaceShapes?.includes(v): undefined (falsy) on a null column
OptIncludes(col, v) == col # Null /\ Includes(col[1], v)

\* frameSearchSchema.parse(body): the four keys of the schema, unknown keys
\* stripped; Null when it throws (a key is missing).
frameSearchSchemaParse(body) ==
    LET keys == {"faceShape", "recommendedSizes", "recommendedColors",
                 "recommendedStyles"}
    IN  IF keys \subseteq DOMAIN body
        THEN Some([k \in keys |-> body[k]])
        ELSE Null

\* The value of a digit character.
DigitValue(ch) == (CHOOSE i \in DOMAIN DigitChars : DigitChars[i] = ch) - 1

\* ch is a digit of the radix.
IsDigit(ch, radix) ==
    \E i \in DOMAIN DigitChars : DigitChars[i] = ch /\ i <= radix

\* The string without its leading blanks.
RECURSIVE TrimStart(_)
TrimStart(str) ==
    IF str # <<>> /\ str[1] = " " THEN TrimStart(Tail(str)) ELSE str

\* The number the longest prefix of digits denotes, after acc: Null when
\* there was no digit.
RECURSIVE ParseDigits(_, _, _)
ParseDigits(str, radix, acc) ==
    IF str = <<>> \/ ~IsDigit(str[1], radix) THEN acc
    ELSE ParseDigits(Tail(str), radix,
                     Some((IF acc = Null THEN 0 ELSE acc[1]) * radix
                          + DigitValue(str[1])))

\* parseInt(str) without a radix: leading blanks are skipped, a sign is read,
\* a 0x prefix selects radix 16, the longest prefix of digits is the value,
\* what follows it is ignored; NaN (Null) without a digit or on undefined.
parseInt(q) ==
    IF q = Null THEN Null
    ELSE LET trimmed == TrimStart(q[1])
             signed == trimmed # <<>> /\ trimmed[1] \in {"-", "+"}
             sign == IF signed /\ trimmed[1] = "-" THEN -1 ELSE 1
             body == IF signed THEN Tail(trimmed) ELSE trimmed
             hex == Len(body) >= 2 /\ body[1] = "0" /\ body[2] = "x"
             magnitude == IF hex THEN ParseDigits(SubSeq(body, 3, Len(body)), 16, Null)
                          ELSE ParseDigits(body, 10, Null)
         IN  IF magnitude = Null THEN Null ELSE Some(sign * magnitude[1])

\* parseInt(...) || 10
routeLimitOrTen(q) ==
    IF parseInt(q) = Null \/ parseInt(q) = Some(0) THEN 10 ELSE parseInt(q)[1]

\* parseInt(req.query.limit as string) || 5: NaN and 0 are falsy
routeLimit(q) ==
    IF parseInt(q) = Null \/ parseInt(q) = Some(0)
    THEN RouteDefaultLimit
    ELSE parseInt(q)[1]

\* The validation of the parsed object: !data.faceShape ||
\* !data.recommendedSize || !data.recommendedColors ||
\* !data.recommendedStyles is false (an absent property and the empty string
\* are falsy, an array is truthy).
isValidAnalysis(data) ==
    /\ "faceShape" \in DOMAIN data /\ data.faceShape # ""
    /\ "recommendedSize" \in DOMAIN data /\ data.recommendedSize # ""
    /\ "recommendedColors" \in DOMAIN data
    /\ "recommendedStyles" \in DOMAIN data

\* What the try block makes of response.text: the error it throws, or Null
\* when it returns the parsed object.
tryError(text) ==
    CASE text.kind = "empty" -> Some(EmptyResponse)
      [] text.kind = "not json" -> Some(SyntaxError)
      [] text.kind = "null" -> Some(TypeError)
      [] OTHER -> IF isValidAnalysis(text.value) THEN Null ELSE Some(InvalidFormat)

\* error.status === 503 || error.message?.includes("overloaded") ||
\* error.message?.includes("UNAVAILABLE")
isOverloaded(error) ==
    \/ error.status = Some(503)
    \/ Includes(error.message, "overloaded")
    \/ Includes(error.message, "UNAVAILABLE")

\* A catch block that retries after any failure.
catchOutcomeAnyFailure(error, n) ==
    IF n < maxRetries THEN "delay" ELSE "break"

\* The way the catch block leaves attempt n: it delays and continues, it
\* breaks, or it falls through to the next iteration.
catchOutcome(error, n) ==
    IF isOverloaded(error) /\ n < maxRetries THEN "delay"
    ELSE IF n = maxRetries \/ error.status # Some(503) THEN "break"
    ELSE "next"

\* analysis.recommendedSizes and the like: the property, or undefined, which
\* the guards of the scoring (criteria.recommendedSizes && ...) treat like an
\* array that includes nothing.
arrayProperty(object, key) == IF key \in DOMAIN object THEN object[key] ELSE <<>>

\* const searchCriteria = { faceShape: analysis.faceShape, ... }
searchCriteria(object) ==
    Criteria(object.faceShape, arrayProperty(object, "recommendedSizes"),
             arrayProperty(object, "recommendedColors"),
             arrayProperty(object, "recommendedStyles"))

\* An end of the function that rethrows the last error.
afterLoopThrows == [apc |-> "threw", value |-> Null]

\* The statements after the loop: the fallback is returned.
afterLoop == [apc |-> "returned", value |-> Some(FallbackAnalysis)]

\* The bijections of 1..n, for every length an array of rows can have
\* (the orders the variant sorts below choose from).
PermTable ==
    [n \in 0..MaxFrames |->
        {p \in [1..n -> 1..n] : \A i, j \in 1..n : i # j => p[i] # p[j]}]
Perms(n) == PermTable[n]

\* The sequences that list every element of S once.
RECURSIVE Orderings(_)
Orderings(S) ==
    IF S = {} THEN {<<>>}
    ELSE UNION {{<<x>> \o s : s \in Orderings(S \ {x})} : x \in S}

\* The comparator with its operands exchanged.
CompareAscending(a, b) == a.matchScore - b.matchScore

\* b.matchScore - a.matchScore
Compare(a, b) == b.matchScore - a.matchScore

\* A sort that orders by the comparator but places equal elements freely.
SortUnstable(arr) ==
    LET n == Len(arr)
        ok(p) == \A i \in 1..(n - 1) : Compare(arr[p[i]], arr[p[i + 1]]) <= 0
    IN  {[i \in 1..n |-> arr[p[i]]] : p \in {q \in Perms(n) : ok(q)}}

\* A sort that orders by the comparator and reverses equal elements.
SortTiesReversed(arr) ==
    LET n == Len(arr)
        ok(p) == \A i \in 1..(n - 1) :
                    \/ Compare(arr[p[i]], arr[p[i + 1]]) < 0
                    \/ Compare(arr[p[i]], arr[p[i + 1]]) = 0 /\ p[i] > p[i + 1]
    IN  {[i \in 1..n |-> arr[p[i]]] : p \in {q \in Perms(n) : ok(q)}}

\* Array.prototype.sort with the comparator above. The sort is stable
\* (ECMAScript 2019): an element is placed after exactly the elements that
\* the comparator orders before it and the ones that compare equal to it
\* and came earlier in the array. The set of arrays it can leave.
Sort(arr) ==
    LET n == Len(arr)
        before(j, i) == \/ Compare(arr[j], arr[i]) < 0
                        \/ Compare(arr[j], arr[i]) = 0 /\ j < i
        rank == [i \in 1..n |-> 1 + Cardinality({j \in 1..n : before(j, i)})]
    IN  {[k \in 1..n |-> arr[CHOOSE i \in 1..n : rank[i] = k]]}

\* Array.prototype.slice(0, end): a negative end counts from the end
Slice(arr, end) ==
    LET len == Len(arr)
        final == IF end < 0 THEN Max(len + end, 0) ELSE Min(end, len)
    IN  SubSeq(arr, 1, final)

\* Face shape matching (highest priority - 30 points)
shapeScore(crit, frame) ==
    IF crit.faceShape # "" /\ OptIncludes(frame.suitableFaceShapes, crit.faceShape)
    THEN 30 * Scale ELSE 0

\* Size matching awarding the 15 points of the source comment's second case.
sizeScoreSmall(crit, frame) ==
    IF Includes(arrayProperty(crit, "recommendedSizes"), frame.size) THEN 15 * Scale ELSE 0

\* Size matching (25 points); criteria.recommendedSizes && ... is falsy on
\* criteria without the property
sizeScore(crit, frame) ==
    IF Includes(arrayProperty(crit, "recommendedSizes"), frame.size) THEN 25 * Scale ELSE 0

\* Color matching (20 points)
colorScore(crit, frame) ==
    IF Includes(arrayProperty(crit, "recommendedColors"), frame.color) THEN 20 * Scale ELSE 0

\* Style matching (20 points)
styleScore(crit, frame) ==
    IF Includes(arrayProperty(crit, "recommendedStyles"), frame.style) THEN 20 * Scale ELSE 0

\* Stock status bonus with the two weights exchanged.
stockStatusBonusSwapped(frame) ==
    IF frame.stockStatus = "in_stock" THEN 5 * Scale
    ELSE IF frame.stockStatus = "low_stock" THEN 10 * Scale
    ELSE 0

\* Stock status bonus with in_stock weighted like the face shape.
stockStatusBonusHeavy(frame) ==
    IF frame.stockStatus = "in_stock" THEN 30 * Scale
    ELSE IF frame.stockStatus = "low_stock" THEN 5 * Scale
    ELSE 0

\* Stock status bonus
stockStatusBonus(frame) ==
    IF frame.stockStatus = "in_stock" THEN 10 * Scale
    ELSE IF frame.stockStatus = "low_stock" THEN 5 * Scale
    ELSE 0

\* Stock count bonus without the cap.
stockCountBonusUncapped(frame) ==
    IF frame.stockCount # Null /\ frame.stockCount[1] > 0
    THEN (frame.stockCount[1] * Scale) \div 10
    ELSE 0

\* Stock count bonus with an integer division.
stockCountBonusFloored(frame) ==
    IF frame.stockCount # Null /\ frame.stockCount[1] > 0
    THEN Min((frame.stockCount[1] \div 10) * Scale, 5 * Scale)
    ELSE 0

\* Stock count bonus: Math.min(frame.stockCount / 10, 5), on a count that is
\* neither null nor 0
stockCountBonus(frame) ==
    IF frame.stockCount # Null /\ frame.stockCount[1] > 0
    THEN Min((frame.stockCount[1] * Scale) \div 10, 5 * Scale)
    ELSE 0

\* the score of one frame: the conditional additions of the map callback
matchScore(crit, frame) ==
    shapeScore(crit, frame) + sizeScore(crit, frame) + colorScore(crit, frame)
    + styleScore(crit, frame) + stockStatusBonus(frame) + stockCountBonus(frame)

\* { ...frame, matchScore: score }
WithScore(crit, frame) ==
    [k \in DOMAIN frame \cup {"matchScore"} |->
        IF k = "matchScore" THEN matchScore(crit, frame) ELSE frame[k]]

\* A final map that returns the scored object as it is.
KeepScore(scored) == scored

\* ({ matchScore, ...frame }) => frame
StripScore(scored) == [k \in DOMAIN scored \ {"matchScore"} |-> scored[k]]

\* allFrames.map(frame => ...)
ScoreAll(crit, rows) == [i \in DOMAIN rows |-> WithScore(crit, rows[i])]

\* A query that drops only the rows whose is_active is false.
SelectNotInactive(table) ==
    Orderings({f \in table : f.isActive # Some(FALSE)})

\* select().from(frames).where(eq(frames.isActive, true)): the rows whose
\* is_active is true (not false, not null), in an order the query does not fix
SelectActive(table) ==
    Orderings({f \in table : f.isActive = Some(TRUE)})

\* The body of searchFrames after its query returned rows: the arrays it can
\* return. scoredFrames.sort(...).slice(0, limit).map(strip)
searchFrames(crit, rows, lim) ==
    LET strip(arr) == [i \in DOMAIN arr |-> StripScore(arr[i])]
    IN  {strip(Slice(sorted, lim)) : sorted \in Sort(ScoreAll(crit, rows))}

\* criteria.recommendedSize: the property, or undefined, which the query
\* strategy's test (if (criteria.recommendedSize)) treats like "".
stringProperty(object, key) == IF key \in DOMAIN object THEN object[key] ELSE ""

\* and(...conditions) of the query strategy: is_active is true, and one
\* condition for each criterion that is given. A null suitable_face_shapes
\* makes the @> condition null, which where() treats as false.
queryConditions(crit, f) ==
    /\ f.isActive = Some(TRUE)
    /\ crit.faceShape # "" => OptIncludes(f.suitableFaceShapes, crit.faceShape)
    /\ stringProperty(crit, "recommendedSize") # "" =>
          f.size = stringProperty(crit, "recommendedSize")
    /\ Len(arrayProperty(crit, "recommendedColors")) > 0 =>
          Includes(arrayProperty(crit, "recommendedColors"), f.color)
    /\ Len(arrayProperty(crit, "recommendedStyles")) > 0 =>
          Includes(arrayProperty(crit, "recommendedStyles"), f.style)

\* orderBy(desc(frames.stockCount)): a may come before b. Nulls come first
\* in a descending order; rows of equal stock_count come in any order.
stockCountDesc(a, b) ==
    \/ a.stockCount = Null
    \/ b.stockCount # Null /\ a.stockCount[1] >= b.stockCount[1]

\* The query strategy of searchFrames with a limit that is not negative: the
\* arrays its select can return.
searchFramesQuery(crit, table, lim) ==
    LET rows == {f \in table : queryConditions(crit, f)}
        ordered == {s \in Orderings(rows) :
                        \A i \in 1..(Len(s) - 1) : stockCountDesc(s[i], s[i + 1])}
    IN  {SubSeq(s, 1, Min(lim, Len(s))) : s \in ordered}

\* ------------------------------------------------------------------- init
\* No request is being served and the analysis_results table is empty.
NoRequest ==
    /\ req = Null
    /\ rpc = "idle"
    /\ res = <<>>
    /\ analysis = Null
    /\ analysisResults = <<>>
    /\ framesWithTryOn = <<>>

\* analyzeFacialFeatures has not been called.
NotAnalyzing ==
    /\ apc = "idle"
    /\ attempt = 0
    /\ lastError = Null
    /\ generated = 0
    /\ returned = Null
    /\ delays = <<>>

\* The Home page as mounted (the initial values of its useState calls), no
\* request of its mutation in flight, and the database clock at its first
\* instant.
HomeMounted ==
    /\ currentStep = 0
    /\ capturedPhoto = Null
    /\ photoUrl = <<>>
    /\ analysisResult = Null
    /\ recommendedFrames = <<>>
    /\ inFlight = 0
    /\ pendingBlobs = 0
    /\ now = 1

\* No call of searchFrames has been made.
NotSearching ==
    /\ pc = [c \in CallIds |-> "idle"]
    /\ criteria = [c \in CallIds |-> Null]
    /\ limit = [c \in CallIds |-> Null]
    /\ allFrames = [c \in CallIds |-> <<>>]
    /\ scoredFrames = [c \in CallIds |-> <<>>]
    /\ result = [c \in CallIds |-> <<>>]

\* The storage layer called directly, on any catalog.
Init ==
    /\ frames \in Catalogs
    /\ NotSearching
    /\ NoRequest
    /\ NotAnalyzing
    /\ HomeMounted

\* The storage layer called directly, on a catalog of one row in any stock.
InitStock ==
    /\ frames \in StockCatalogs
    /\ NotSearching
    /\ NoRequest
    /\ NotAnalyzing
    /\ HomeMounted

\* The storage layer and POST /api/search-frames on a shelf catalog.
InitRoute ==
    /\ frames \in ShelfCatalogs
    /\ NotSearching
    /\ NoRequest
    /\ NotAnalyzing
    /\ HomeMounted

\* analyzeFacialFeatures (the retrying one) about to be called.
InitGemini ==
    /\ frames = {}
    /\ NotSearching
    /\ NoRequest
    /\ NotAnalyzing
    /\ HomeMounted

\* POST /api/analyze-face about to be served.
InitAnalyze ==
    /\ frames \in AnalyzeCatalogs
    /\ NotSearching
    /\ NoRequest
    /\ NotAnalyzing
    /\ HomeMounted

\* ---------------------------------------------------------------- actions
\* A call whose criteria parameter is one variable shared by all invocations.
SearchFramesCallShared(c, crit, lim) ==
    /\ pc[c] = "idle"
    /\ pc' = [pc EXCEPT ![c] = "select"]
    /\ criteria' = [d \in CallIds |-> Some(crit)]
    /\ limit' = [limit EXCEPT ![c] = IF lim = Null THEN DefaultLimit ELSE lim[1]]
    /\ allFrames' = [allFrames EXCEPT ![c] = <<>>]
    /\ scoredFrames' = [scoredFrames EXCEPT ![c] = <<>>]
    /\ result' = [result EXCEPT ![c] = <<>>]
    /\ UNCHANGED frames

\* searchFrames(crit, lim) is called: the default limit is applied and the
\* query for the active rows is issued.
SearchFramesCall(c, crit, lim) ==
    /\ pc[c] = "idle"
    /\ pc' = [pc EXCEPT ![c] = "select"]
    /\ criteria' = [criteria EXCEPT ![c] = Some(crit)]
    /\ limit' = [limit EXCEPT ![c] = IF lim = Null THEN DefaultLimit ELSE lim[1]]
    /\ allFrames' = [allFrames EXCEPT ![c] = <<>>]
    /\ scoredFrames' = [scoredFrames EXCEPT ![c] = <<>>]
    /\ result' = [result EXCEPT ![c] = <<>>]
    /\ UNCHANGED frames

\* A resume that takes the frames it returns out of the frames table.
SearchFramesResumeReserving(c) ==
    /\ pc[c] = "select"
    /\ \E rows \in SelectActive(frames) :
         \E out \in searchFrames(criteria[c][1], rows, limit[c]) :
            /\ allFrames' = [allFrames EXCEPT ![c] = rows]
            /\ scoredFrames' = [scoredFrames EXCEPT ![c] = ScoreAll(criteria[c][1], rows)]
            /\ result' = [result EXCEPT ![c] = out]
            /\ frames' = frames \ {out[i] : i \in DOMAIN out}
    /\ pc' = [pc EXCEPT ![c] = "returned"]
    /\ UNCHANGED <<criteria, limit>>

\* The query resolves and the rest of searchFrames runs to its return:
\* score, sort, slice, strip the score.
SearchFramesResume(c) ==
    /\ pc[c] = "select"
    /\ \E rows \in SelectActive(frames) :
         \E out \in searchFrames(criteria[c][1], rows, limit[c]) :
            /\ allFrames' = [allFrames EXCEPT ![c] = rows]
            /\ scoredFrames' = [scoredFrames EXCEPT ![c] = ScoreAll(criteria[c][1], rows)]
            /\ result' = [result EXCEPT ![c] = out]
    /\ pc' = [pc EXCEPT ![c] = "returned"]
    /\ UNCHANGED <<frames, criteria, limit>>

\* A direct call of storage.searchFrames by a caller other than the routes.
DirectCall ==
    /\ rpc = "idle"
    /\ \E crit \in CriteriaUniverse, lim \in LimitArgs : SearchFramesCall(1, crit, lim)
    /\ UNCHANGED <<routeVars, geminiVars, homeVars, now>>

\* The query of a direct call resolves.
DirectResume ==
    /\ SearchFramesResume(1)
    /\ UNCHANGED <<routeVars, geminiVars, homeVars, now>>

Next ==
    \/ DirectCall
    \/ DirectResume

\* The query of searchFrames rejects (the catalog fetch fails): the call
\* throws.
SearchFramesReject(c) ==
    /\ pc[c] = "select"
    /\ pc' = [pc EXCEPT ![c] = "threw"]
    /\ UNCHANGED <<frames, criteria, limit, allFrames, scoredFrames, result>>

\* The query of the call in flight rejects.
QueryFails ==
    /\ SearchFramesReject(1)
    /\ UNCHANGED <<routeVars, geminiVars, homeVars, now>>

\* res.status(500).json({ message: "Failed to search frames. ..." })
SearchFailed ==
    [status |-> 500, body |-> [message |-> "Failed to search frames. Please try again."]]

\* POST /api/search-frames arrives: the body is parsed (a throw goes to the
\* catch block, which answers 500), the limit is read from the query and
\* storage.searchFrames is called with it.
PostSearchFrames(body, q) ==
    /\ rpc = "idle"
    /\ pc[1] = "idle"
    /\ req' = [route |-> "POST /api/search-frames", body |-> body, query |-> q]
    /\ IF frameSearchSchemaParse(body) = Null
       THEN /\ res' = Append(res, SearchFailed)
            /\ rpc' = "done"
            /\ UNCHANGED searchVars
       ELSE /\ SearchFramesCall(1, frameSearchSchemaParse(body)[1], Some(routeLimit(q)))
            /\ rpc' = "searchFrames"
            /\ UNCHANGED res
    /\ UNCHANGED <<analysis, analysisResults, framesWithTryOn, geminiVars, homeVars, now>>

\* storage.searchFrames returned to the handler: res.json({ frames })
PostSearchFramesRespond ==
    /\ rpc = "searchFrames"
    /\ req.route = "POST /api/search-frames"
    /\ pc[1] = "returned"
    /\ res' = Append(res, [status |-> 200, body |-> [frames |-> result[1]]])
    /\ rpc' = "done"
    /\ UNCHANGED <<req, analysis, analysisResults, framesWithTryOn, searchVars, geminiVars, homeVars, now>>

\* storage.searchFrames threw: the catch block answers 500.
PostSearchFramesCatch ==
    /\ rpc = "searchFrames"
    /\ req.route = "POST /api/search-frames"
    /\ pc[1] = "threw"
    /\ res' = Append(res, SearchFailed)
    /\ rpc' = "done"
    /\ UNCHANGED <<req, analysis, analysisResults, framesWithTryOn, searchVars, geminiVars, homeVars, now>>

NextRoute ==
    \/ DirectCall
    \/ DirectResume
    \/ QueryFails
    \/ \E body \in RequestBodies, q \in QueryLimits : PostSearchFrames(body, q)
    \/ PostSearchFramesRespond
    \/ PostSearchFramesCatch

\* searchFrames called directly and through POST /api/search-frames.
SpecRoute == InitRoute /\ [][NextRoute]_vars

\* res.status(400).json({ message: "No photo provided" })
NoPhoto == [status |-> 400, body |-> [message |-> "No photo provided"]]

\* A 500 response that also carries the error caught.
AnalyzeFailedWithError ==
    [status |-> 500,
     body |-> [message |-> "Failed to analyze face. Please ensure you have a clear photo and try again.",
               error |-> "Error"]]

\* res.status(500).json({ message: "Failed to analyze face. ..." })
AnalyzeFailed ==
    [status |-> 500,
     body |-> [message |-> "Failed to analyze face. Please ensure you have a clear photo and try again."]]

\* An insert that stores nothing.
insertNothing(table, row) == table

\* db.insert(analysisResults).values(insertAnalysis): the row is added
insertAnalysis(table, row) == Append(table, row)

\* The object passed to storage.saveAnalysis, without its confidence and
\* analysisData.
analysisRow ==
    [sessionId |-> req.sessionId,
     faceShape |-> analysis[1].faceShape,
     recommendedSizes |-> analysis[1].recommendedSizes,
     recommendedColors |-> analysis[1].recommendedColors,
     recommendedStyles |-> analysis[1].recommendedStyles]

\* A handler that does not test req.file.
PostAnalyzeFaceUnchecked(file, sessionId, uuid) ==
    /\ rpc = "idle"
    /\ req' = [route |-> "POST /api/analyze-face", file |-> file,
               sessionId |-> IF sessionId = Null THEN uuid ELSE sessionId[1]]
    /\ rpc' = "analyzeFacialFeatures"
    /\ UNCHANGED <<res, analysis, analysisResults, framesWithTryOn, searchVars, geminiVars, homeVars, now>>

\* POST /api/analyze-face arrives: without a file it is answered 400;
\* otherwise the session id is taken from the body or generated, and
\* analyzeFacialFeatures is called.
PostAnalyzeFace(file, sessionId, uuid) ==
    /\ rpc = "idle"
    /\ req' = [route |-> "POST /api/analyze-face", file |-> file,
               sessionId |-> IF sessionId = Null THEN uuid ELSE sessionId[1]]
    /\ IF ~file
       THEN /\ res' = Append(res, NoPhoto)
            /\ rpc' = "done"
       ELSE /\ rpc' = "analyzeFacialFeatures"
            /\ UNCHANGED res
    /\ UNCHANGED <<analysis, analysisResults, framesWithTryOn, searchVars, geminiVars, homeVars, now>>

\* analyzeFacialFeatures returns: storage.saveAnalysis is called and its
\* insert is issued.
AnalyzeReturns(a) ==
    /\ rpc = "analyzeFacialFeatures"
    /\ analysis' = Some(a)
    /\ rpc' = "saveAnalysis"
    /\ UNCHANGED <<req, res, analysisResults, framesWithTryOn, searchVars, geminiVars, homeVars, now>>

\* analyzeFacialFeatures throws: the catch block answers 500.
AnalyzeThrows ==
    /\ rpc = "analyzeFacialFeatures"
    /\ res' = Append(res, AnalyzeFailed)
    /\ rpc' = "done"
    /\ UNCHANGED <<req, analysis, analysisResults, framesWithTryOn, searchVars, geminiVars, homeVars, now>>

\* The database executes the insert of saveAnalysis.
SaveAnalysisInserts ==
    /\ rpc = "saveAnalysis"
    /\ analysisResults' = insertAnalysis(analysisResults, analysisRow)
    /\ rpc' = "saved"
    /\ UNCHANGED <<req, res, analysis, framesWithTryOn, searchVars, geminiVars, homeVars, now>>

\* The insert of saveAnalysis fails: the catch block answers 500.
SaveAnalysisRejects ==
    /\ rpc = "saveAnalysis"
    /\ res' = Append(res, AnalyzeFailed)
    /\ rpc' = "done"
    /\ UNCHANGED <<req, analysis, analysisResults, framesWithTryOn, searchVars, geminiVars, homeVars, now>>

\* saveAnalysis returned to the handler: the search criteria are built and
\* storage.searchFrames(searchCriteria, 5) is called.
AnalyzeSearches ==
    /\ rpc = "saved"
    /\ SearchFramesCall(1, searchCriteria(analysis[1]), Some(5))
    /\ rpc' = "searchFrames"
    /\ UNCHANGED <<req, res, analysis, analysisResults, framesWithTryOn, geminiVars, homeVars, now>>

\* storage.searchFrames threw: the catch block answers 500.
AnalyzeSearchCatch ==
    /\ rpc = "searchFrames"
    /\ req.route = "POST /api/analyze-face"
    /\ pc[1] = "threw"
    /\ res' = Append(res, AnalyzeFailed)
    /\ rpc' = "done"
    /\ UNCHANGED <<req, analysis, analysisResults, framesWithTryOn, searchVars, geminiVars, homeVars, now>>

\* generateVirtualTryOn(userPhotoBase64, frameDetails) when its
\* generateContent call settles this way: the generated image or the photo
\* with the model's text, or, from its catch block, the photo with the
\* preview text that names the frame. Descriptions are arrays of words.
generateVirtualTryOn(userPhotoBase64, frameDetails, response) ==
    CASE response = "image" ->
            [generatedImageBase64 |-> "generated image",
             description |-> <<"model", "text">>]
      [] response = "text" ->
            [generatedImageBase64 |-> userPhotoBase64,
             description |-> <<"model", "text">>]
      [] OTHER ->
            [generatedImageBase64 |-> userPhotoBase64,
             description |-> <<"Virtual", "try-on", "preview:", frameDetails.name,
                               frameDetails.color, frameDetails.style>>]

\* A find that returns the first element of the array.
findFirst(arr, id) == IF arr = <<>> THEN Null ELSE Some(arr[1])

\* framesWithTryOn.find(tryOn => tryOn.frameId === frame.id): the first
\* element with this id, or undefined
find(arr, id) ==
    IF \E i \in DOMAIN arr : arr[i].frameId = id
    THEN Some(arr[CHOOSE i \in DOMAIN arr :
                     /\ arr[i].frameId = id
                     /\ \A j \in 1..(i - 1) : arr[j].frameId # id])
    ELSE Null

\* { ...frame, virtualTryOn: tryOnData ? { imageBase64, description } : null }
withVirtualTryOn(frame, tryOnData) ==
    [k \in DOMAIN frame \cup {"virtualTryOn"} |->
        IF k # "virtualTryOn" THEN frame[k]
        ELSE IF tryOnData = Null THEN Null
        ELSE Some([imageBase64 |-> tryOnData[1].virtualTryOnImage,
                   description |-> tryOnData[1].description])]

\* storage.searchFrames returned to the handler: the loop over the
\* recommended frames starts with an empty framesWithTryOn.
AnalyzeTryOns ==
    /\ rpc = "searchFrames"
    /\ req.route = "POST /api/analyze-face"
    /\ pc[1] = "returned"
    /\ framesWithTryOn' = <<>>
    /\ rpc' = "generateVirtualTryOn"
    /\ UNCHANGED <<req, res, analysis, analysisResults, searchVars, geminiVars, homeVars, now>>

\* The generateVirtualTryOn call for the next frame returns (it never
\* throws) and its result is pushed with the frame's id.
TryOnSettles(response) ==
    /\ rpc = "generateVirtualTryOn"
    /\ Len(framesWithTryOn) < Len(result[1])
    /\ LET frame == result[1][Len(framesWithTryOn) + 1]
           virtualTryOn == generateVirtualTryOn("photo", frame, response)
       IN  framesWithTryOn' =
              Append(framesWithTryOn,
                     [frameId |-> frame.id,
                      virtualTryOnImage |-> virtualTryOn.generatedImageBase64,
                      description |-> virtualTryOn.description])
    /\ UNCHANGED <<req, rpc, res, analysis, analysisResults, searchVars, geminiVars, homeVars, now>>

\* The loop is over: the frames are joined with their try-on data and the
\* response is sent.
AnalyzeResponds ==
    /\ rpc = "generateVirtualTryOn"
    /\ Len(framesWithTryOn) = Len(result[1])
    /\ res' = Append(res,
            [status |-> 200,
             body |-> [sessionId |-> req.sessionId,
                       analysis |-> [k \in {"faceShape", "recommendedSizes",
                                            "recommendedColors", "recommendedStyles",
                                            "confidence"} |-> analysis[1][k]],
                       recommendedFrames |->
                           [i \in DOMAIN result[1] |->
                               withVirtualTryOn(result[1][i],
                                                find(framesWithTryOn, result[1][i].id))],
                       message |-> Len(framesWithTryOn)]])
    /\ rpc' = "done"
    /\ UNCHANGED <<req, analysis, analysisResults, framesWithTryOn, searchVars, geminiVars, homeVars, now>>

NextAnalyze ==
    \/ \E file \in BOOLEAN, sessionId \in SessionIds, uuid \in RandomUUIDs :
          PostAnalyzeFace(file, sessionId, uuid)
    \/ \E a \in RouteAnalyses : AnalyzeReturns(a)
    \/ AnalyzeThrows
    \/ SaveAnalysisInserts
    \/ SaveAnalysisRejects
    \/ AnalyzeSearches
    \/ DirectResume
    \/ QueryFails
    \/ AnalyzeSearchCatch
    \/ AnalyzeTryOns
    \/ \E response \in TryOnResponses : TryOnSettles(response)
    \/ AnalyzeResponds

\* POST /api/analyze-face about to be served on a catalog of the shelf.
InitTryOn ==
    /\ frames \in TryOnCatalogs
    /\ NotSearching
    /\ NoRequest
    /\ NotAnalyzing
    /\ HomeMounted

\* One request with a photo and the client's session id, classified as in
\* the seeded scenario; a try-on call yields the generated image or fails.
NextTryOn ==
    \/ PostAnalyzeFace(TRUE, Some("session-1"), "uuid-1")
    \/ AnalyzeReturns(ScenarioAnalysis)
    \/ AnalyzeThrows
    \/ SaveAnalysisInserts
    \/ SaveAnalysisRejects
    \/ AnalyzeSearches
    \/ DirectResume
    \/ QueryFails
    \/ AnalyzeSearchCatch
    \/ AnalyzeTryOns
    \/ \E response \in {"image", "rejects"} : TryOnSettles(response)
    \/ AnalyzeResponds

\* One request of POST /api/analyze-face on catalogs of more than five rows.
SpecTryOn == InitTryOn /\ [][NextTryOn]_vars

\* One request of POST /api/analyze-face.
SpecAnalyze == InitAnalyze /\ [][NextAnalyze]_vars

\* analyzeFacialFeatures is called: the loop starts with attempt 1 and awaits
\* ai.models.generateContent.
AnalyzeFacialFeaturesCall ==
    /\ apc = "idle"
    /\ attempt' = 1
    /\ generated' = generated + 1
    /\ apc' = "generateContent"
    /\ UNCHANGED <<lastError, returned, delays, searchVars, routeVars, homeVars, now>>

\* attempt++ and the loop test: another generateContent call, or the
\* statements after the loop.
nextIteration ==
    IF attempt + 1 <= maxRetries
    THEN /\ attempt' = attempt + 1
         /\ generated' = generated + 1
         /\ apc' = "generateContent"
         /\ UNCHANGED returned
    ELSE /\ attempt' = attempt + 1
         /\ apc' = afterLoop.apc
         /\ returned' = afterLoop.value
         /\ UNCHANGED generated

\* The catch block with this error.
catch(error) ==
    /\ lastError' = Some(error)
    /\ CASE catchOutcome(error, attempt) = "delay" ->
              /\ apc' = "delay"
              /\ delays' = Append(delays, 2000 * attempt)
              /\ UNCHANGED <<attempt, generated, returned>>
         [] catchOutcome(error, attempt) = "break" ->
              /\ apc' = afterLoop.apc
              /\ returned' = afterLoop.value
              /\ UNCHANGED <<attempt, generated, delays>>
         [] OTHER -> nextIteration /\ UNCHANGED delays

\* ai.models.generateContent rejects.
GenerateContentRejects(error) ==
    /\ apc = "generateContent"
    /\ catch(error)
    /\ UNCHANGED <<searchVars, routeVars, homeVars, now>>

\* ai.models.generateContent resolves: the text is parsed and validated, and
\* the object is returned or the error thrown is caught.
GenerateContentResolves(text) ==
    /\ apc = "generateContent"
    /\ IF tryError(text) = Null
       THEN /\ returned' = Some(text.value)
            /\ apc' = "returned"
            /\ UNCHANGED <<attempt, generated, lastError, delays>>
       ELSE catch(tryError(text)[1])
    /\ UNCHANGED <<searchVars, routeVars, homeVars, now>>

\* The timer of delay(2000 * attempt) fires: continue.
DelayElapses ==
    /\ apc = "delay"
    /\ nextIteration
    /\ UNCHANGED <<lastError, delays, searchVars, routeVars, homeVars, now>>

NextGemini ==
    \/ AnalyzeFacialFeaturesCall
    \/ \E error \in ApiErrors : GenerateContentRejects(error)
    \/ \E text \in ResponseTexts : GenerateContentResolves(text)
    \/ DelayElapses

\* One call of analyzeFacialFeatures; every pending promise settles and
\* every timer fires.
SpecGemini == InitGemini /\ [][NextGemini]_vars /\ WF_vars(NextGemini)

Spec == Init /\ [][Next]_vars

\* Direct calls on the stock catalogs.
SpecStock == InitStock /\ [][Next]_vars

\* The query strategy of searchFrames is called: the default limit is
\* applied, the conditions are built and the select is issued.
SearchFramesQueryCall(c, crit, lim) ==
    /\ pc[c] = "idle"
    /\ pc' = [pc EXCEPT ![c] = "query"]
    /\ criteria' = [criteria EXCEPT ![c] = Some(crit)]
    /\ limit' = [limit EXCEPT ![c] = IF lim = Null THEN DefaultLimit ELSE lim[1]]
    /\ UNCHANGED <<frames, allFrames, scoredFrames, result>>

\* The select of the query strategy settles: the database rejects a negative
\* LIMIT and the call throws; otherwise the rows selected are returned.
SearchFramesQueryResume(c) ==
    /\ pc[c] = "query"
    /\ IF limit[c] < 0
       THEN /\ pc' = [pc EXCEPT ![c] = "threw"]
            /\ UNCHANGED result
       ELSE /\ \E out \in searchFramesQuery(criteria[c][1], frames, limit[c]) :
                  result' = [result EXCEPT ![c] = out]
            /\ pc' = [pc EXCEPT ![c] = "returned"]
    /\ UNCHANGED <<frames, criteria, limit, allFrames, scoredFrames>>

\* The scoring strategy is called with criteria either schema admits.
StrategyCall ==
    /\ rpc = "idle"
    /\ \E crit \in StrategyCriteria, lim \in LimitArgs : SearchFramesCall(1, crit, lim)
    /\ UNCHANGED <<routeVars, geminiVars, homeVars, now>>

\* After the scoring strategy returned, the query strategy is called with
\* the same criteria and limit on the same table.
StrategyQueryCall ==
    /\ pc[1] = "returned"
    /\ SearchFramesQueryCall(2, criteria[1][1], Some(limit[1]))
    /\ UNCHANGED <<routeVars, geminiVars, homeVars, now>>

\* The select of the query strategy settles.
StrategyQueryResume ==
    /\ SearchFramesQueryResume(2)
    /\ UNCHANGED <<routeVars, geminiVars, homeVars, now>>

NextStrategies ==
    \/ StrategyCall
    \/ DirectResume
    \/ StrategyQueryCall
    \/ StrategyQueryResume

\* The two strategies of searchFrames called one after the other with the
\* same arguments.
SpecStrategies == Init /\ [][NextStrategies]_vars

\* The storage layer called by independent requests while the seeding path
\* adds rows.
InitConcurrent ==
    /\ frames \in ConcurrentCatalogs
    /\ NotSearching
    /\ NoRequest
    /\ NotAnalyzing
    /\ HomeMounted

\* One of the independent requests calls storage.searchFrames.
ConcurrentCall(c) ==
    /\ \E crit \in ConcurrentCriteria, lim \in ConcurrentLimits :
          SearchFramesCall(c, crit, lim)
    /\ UNCHANGED <<routeVars, geminiVars, homeVars, now>>

\* The query of one of the calls in flight resolves and the call runs to its
\* return without yielding.
ConcurrentResume(c) ==
    /\ SearchFramesResume(c)
    /\ UNCHANGED <<routeVars, geminiVars, homeVars, now>>

\* createFrame: the seeding path inserts the next row of the shelf.
CreateFrame ==
    /\ Cardinality(frames) < MaxFrames
    /\ frames' = frames \cup {RowById(ShelfIds[Cardinality(frames) + 1])}
    /\ UNCHANGED <<pc, criteria, limit, allFrames, scoredFrames, result,
                   routeVars, geminiVars, homeVars, now>>

\* saveAnalysis by another request: a row is added to analysis_results (one
\* at most here).
SaveAnalysis ==
    /\ analysisResults = <<>>
    /\ analysisResults' =
          insertAnalysis(analysisResults,
                         [sessionId |-> "session-1", faceShape |-> "oval",
                          recommendedSizes |-> <<"Medium", "Small">>,
                          recommendedColors |-> <<"Gold", "Tortoise">>,
                          recommendedStyles |-> <<"Aviator", "Round">>])
    /\ UNCHANGED <<req, rpc, res, analysis, framesWithTryOn, searchVars, geminiVars, homeVars, now>>

NextConcurrent ==
    \/ \E c \in CallIds : ConcurrentCall(c)
    \/ \E c \in CallIds : ConcurrentResume(c)
    \/ CreateFrame
    \/ SaveAnalysis

\* Two invocations of searchFrames interleaved with each other, with inserts
\* into the frames table and with an insert into analysis_results.
SpecConcurrent == InitConcurrent /\ [][NextConcurrent]_vars

\* ------------------------------------------------------------ the Home page
\* The capture clicks whose canvas.toBlob callback has not run yet, at most.
MaxBlobs == 2

\* The analyze-face requests of the page in flight, at most.
MaxInFlight == 2

\* The File that capturePhoto builds from the blob of the canvas.
CapturedFile == [name |-> "captured-photo.jpg", size |-> 300 * 1024]

\* The files that the user can choose in the file input: a small one, and
\* one of more than 10 MB.
ChosenFiles ==
    { [name |-> "portrait.png", size |-> 2 * 1024 * 1024],
      [name |-> "poster.png", size |-> 10 * 1024 * 1024 + 1] }

\* URL.createObjectURL(file), as an array of words ("" is <<>>).
createObjectURL(file) == <<"blob:", file.name>>

\* The bodies of the 200 responses of POST /api/analyze-face that the page
\* can receive: the analysis and the recommended frames with their try-on.
AnalysisResponses ==
    { [analysis |-> a, recommendedFrames |-> fs] :
        a \in { ScenarioAnalysis,
                FacialAnalysisSizes("round", <<"Large", "Medium">>,
                                    <<"Black", "Tortoise">>,
                                    <<"Rectangle", "Aviator">>, 70,
                                    "Soft jawline.") },
        fs \in { <<>>, <<withVirtualTryOn(RowById("A"), Null)>> } }

\* analyzeFaceMutation.isPending
isPending == inFlight > 0

\* handlePhotoCapture(file)
handlePhotoCapture(file) ==
    /\ capturedPhoto' = Some(file)
    /\ photoUrl' = createObjectURL(file)
    /\ currentStep' = 1

\* capturePhoto: the click on the capture button of the CameraInterface,
\* which is rendered at step 0 and enabled while the mutation is not pending.
\* The frame is drawn on the canvas and canvas.toBlob is called; its callback
\* runs later.
CapturePhoto ==
    /\ currentStep = 0
    /\ ~isPending
    /\ pendingBlobs < MaxBlobs
    /\ pendingBlobs' = pendingBlobs + 1
    /\ UNCHANGED <<currentStep, capturedPhoto, photoUrl, analysisResult,
                   recommendedFrames, inFlight,
                   searchVars, routeVars, geminiVars, now>>

\* The callback of canvas.toBlob: with a blob it hands the file to
\* onPhotoCapture, whatever the page shows by then; without one it does
\* nothing.
ToBlobCallback(blob) ==
    /\ pendingBlobs > 0
    /\ pendingBlobs' = pendingBlobs - 1
    /\ IF blob
         THEN handlePhotoCapture(CapturedFile)
         ELSE UNCHANGED <<currentStep, capturedPhoto, photoUrl>>
    /\ UNCHANGED <<analysisResult, recommendedFrames, inFlight,
                   searchVars, routeVars, geminiVars, now>>

\* handleFileUpload: the change event of the file input, at step 0. A file
\* of more than 10 MB is refused with a toast.
HandleFileUpload(file) ==
    /\ currentStep = 0
    /\ ~isPending
    /\ IF file.size > 10 * 1024 * 1024
         THEN UNCHANGED <<currentStep, capturedPhoto, photoUrl>>
         ELSE handlePhotoCapture(file)
    /\ UNCHANGED <<analysisResult, recommendedFrames, inFlight, pendingBlobs,
                   searchVars, routeVars, geminiVars, now>>

\* handleRetakePhoto: the click on "Retake Photo", shown at step 1.
HandleRetakePhoto ==
    /\ currentStep = 1
    /\ capturedPhoto' = Null
    /\ photoUrl' = <<>>
    /\ currentStep' = 0
    /\ UNCHANGED <<analysisResult, recommendedFrames, inFlight, pendingBlobs,
                   searchVars, routeVars, geminiVars, now>>

\* handleConfirmPhoto: the click on "Looks Good", shown at step 1 and
\* disabled without a photo; the handler returns at once without a photo.
\* Otherwise the page moves to step 2 and the mutation sends a request.
HandleConfirmPhoto ==
    /\ currentStep = 1
    /\ inFlight < MaxInFlight
    /\ IF capturedPhoto = Null
         THEN UNCHANGED <<currentStep, inFlight>>
         ELSE /\ currentStep' = 2
              /\ inFlight' = inFlight + 1
    /\ UNCHANGED <<capturedPhoto, photoUrl, analysisResult, recommendedFrames,
                   pendingBlobs, searchVars, routeVars, geminiVars, now>>

\* onSuccess: a request of the mutation resolves with the body of a 200
\* response.
OnSuccess(data) ==
    /\ inFlight > 0
    /\ inFlight' = inFlight - 1
    /\ analysisResult' = Some(data.analysis)
    /\ recommendedFrames' = data.recommendedFrames
    /\ currentStep' = 3
    /\ UNCHANGED <<capturedPhoto, photoUrl, pendingBlobs,
                   searchVars, routeVars, geminiVars, now>>

\* onError: a request of the mutation rejects (a response that is not OK, or
\* no response).
OnError ==
    /\ inFlight > 0
    /\ inFlight' = inFlight - 1
    /\ currentStep' = 0
    /\ UNCHANGED <<capturedPhoto, photoUrl, analysisResult, recommendedFrames,
                   pendingBlobs, searchVars, routeVars, geminiVars, now>>

\* handleStartOver: the click on "Start Over", rendered with the results
\* (currentStep === 3 && analysisResult).
HandleStartOver ==
    /\ currentStep = 3
    /\ analysisResult # Null
    /\ capturedPhoto' = Null
    /\ photoUrl' = <<>>
    /\ analysisResult' = Null
    /\ recommendedFrames' = <<>>
    /\ currentStep' = 0
    /\ UNCHANGED <<inFlight, pendingBlobs,
                   searchVars, routeVars, geminiVars, now>>

\* The page as mounted; the server side is not involved.
InitHome ==
    /\ frames = {}
    /\ NotSearching
    /\ NoRequest
    /\ NotAnalyzing
    /\ HomeMounted

NextHome ==
    \/ CapturePhoto
    \/ \E blob \in BOOLEAN : ToBlobCallback(blob)
    \/ \E file \in ChosenFiles : HandleFileUpload(file)
    \/ HandleRetakePhoto
    \/ HandleConfirmPhoto
    \/ \E data \in AnalysisResponses : OnSuccess(data)
    \/ OnError
    \/ HandleStartOver

\* The Home page under the events of its user, of the canvas and of its
\* mutation.
SpecHome == InitHome /\ [][NextHome]_vars

\* ------------------------------------------------------- the analysis log
\* The rows that saveAnalysis inserts, at most.
MaxSaves == 3

\* The instants at which the database clock is read, in tenths of a second
\* after 2025-01-01 00:00:00 UTC, in the order of time.
Instants == <<5, 10, 15, 95, 100, 105, 595, 600>>

\* The session ids of the requests.
LogSessions == {"session-1", "session-2"}

\* Two decimal digits of n, as characters.
TwoDigits(n) == <<DigitChars[(n \div 10) + 1], DigitChars[(n % 10) + 1]>>

\* now()::text of a session in UTC, from the minutes on (the date and the
\* hour are those of every instant here): MM:SS, then the fraction of the
\* second without its trailing zeros and only if it is not zero, then the
\* offset +00. 59.5 s is "00:59.5+00" and 60 s is "01:00+00".
timestampText(t) ==
    TwoDigits(t \div 600) \o <<":">> \o TwoDigits((t % 600) \div 10)
    \o (IF t % 10 = 0 THEN <<>> ELSE <<".", DigitChars[(t % 10) + 1]>>)
    \o <<"+", "0", "0">>

\* The code of a character of a timestamp.
charCode(ch) ==
    CASE ch = "+" -> 43
      [] ch = "." -> 46
      [] ch = ":" -> 58
      [] OTHER -> 48 + (CHOOSE d \in 0..9 : DigitChars[d + 1] = ch)

\* a < b on text values: the first character that differs decides, and a
\* proper prefix is less.
textLess(a, b) ==
    \E i \in 1..(Min(Len(a), Len(b)) + 1) :
        /\ \A j \in 1..(i - 1) : a[j] = b[j]
        /\ IF i <= Min(Len(a), Len(b))
             THEN charCode(a[i]) < charCode(b[i])
             ELSE Len(a) < Len(b)

\* The query with its order reversed: the oldest row of the session.
getAnalysisBySessionAscending(table, sessionId) ==
    LET rows == {table[i] : i \in {j \in DOMAIN table :
                                        table[j].sessionId = sessionId}}
    IN  IF rows = {} THEN {Null}
        ELSE {Some(r) : r \in {r \in rows :
                  \A q \in rows : ~textLess(q.createdAt, r.createdAt)}}

\* getAnalysisBySession: the rows of the session ordered by created_at
\* descending, limit 1; result[0] is undefined (Null) on no row. The values
\* that it can return (more than one when the greatest created_at is shared).
getAnalysisBySession(table, sessionId) ==
    LET rows == {table[i] : i \in {j \in DOMAIN table :
                                        table[j].sessionId = sessionId}}
    IN  IF rows = {} THEN {Null}
        ELSE {Some(r) : r \in {r \in rows :
                  \A q \in rows : ~textLess(r.createdAt, q.createdAt)}}

\* res.status(404).json({ message: "Analysis not found" })
AnalysisNotFound == [status |-> 404, body |-> [message |-> "Analysis not found"]]

\* res.status(500).json({ message: "Failed to retrieve analysis." })
RetrieveFailed ==
    [status |-> 500, body |-> [message |-> "Failed to retrieve analysis."]]

\* res.json({ analysis })
AnalysisFound(a) == [status |-> 200, body |-> [analysis |-> a]]

\* Time passes on the database clock.
ClockTicks ==
    /\ now < Len(Instants)
    /\ now' = now + 1
    /\ UNCHANGED <<searchVars, routeVars, geminiVars, homeVars>>

\* saveAnalysis of a request of the session: the row is inserted with
\* created_at defaulting to now() as text; the next reading of the clock is
\* later.
SaveAnalysisNow(sessionId, faceShape) ==
    /\ Len(analysisResults) < MaxSaves
    /\ now <= Len(Instants)
    /\ analysisResults' =
          insertAnalysis(analysisResults,
                         [sessionId |-> sessionId, faceShape |-> faceShape,
                          createdAt |-> timestampText(Instants[now])])
    /\ now' = now + 1
    /\ UNCHANGED <<req, rpc, res, analysis, framesWithTryOn,
                   searchVars, geminiVars, homeVars>>

\* GET /api/analysis/:sessionId arrives: storage.getAnalysisBySession is
\* called and its query is issued.
GetAnalysis(sessionId) ==
    /\ rpc \in {"idle", "done"}
    /\ req' = [route |-> "GET /api/analysis/:sessionId", sessionId |-> sessionId]
    /\ rpc' = "getAnalysisBySession"
    /\ res' = <<>>
    /\ UNCHANGED <<analysis, analysisResults, framesWithTryOn,
                   searchVars, geminiVars, homeVars, now>>

\* The query resolves: 404 on undefined, else the row.
GetAnalysisResponds ==
    /\ rpc = "getAnalysisBySession"
    /\ \E a \in getAnalysisBySession(analysisResults, req.sessionId) :
          res' = Append(res, IF a = Null THEN AnalysisNotFound
                             ELSE AnalysisFound(a[1]))
    /\ rpc' = "done"
    /\ UNCHANGED <<req, analysis, analysisResults, framesWithTryOn,
                   searchVars, geminiVars, homeVars, now>>

\* The query rejects: the catch block answers 500.
GetAnalysisCatch ==
    /\ rpc = "getAnalysisBySession"
    /\ res' = Append(res, RetrieveFailed)
    /\ rpc' = "done"
    /\ UNCHANGED <<req, analysis, analysisResults, framesWithTryOn,
                   searchVars, geminiVars, homeVars, now>>

\* An empty analysis_results table and no request.
InitLog ==
    /\ frames = {}
    /\ NotSearching
    /\ NoRequest
    /\ NotAnalyzing
    /\ HomeMounted

NextLog ==
    \/ ClockTicks
    \/ \E sessionId \in LogSessions, faceShape \in {"oval", "round"} :
          SaveAnalysisNow(sessionId, faceShape)
    \/ \E sessionId \in LogSessions : GetAnalysis(sessionId)
    \/ GetAnalysisResponds
    \/ GetAnalysisCatch

\* saveAnalysis calls of two sessions at increasing instants, interleaved
\* with requests of GET /api/analysis/:sessionId.
SpecLog == InitLog /\ [][NextLog]_vars

\* ============================================================== properties
\* The invocations that have returned.
Returned(c) == pc[c] = "returned"

Range(seq) == {seq[i] : i \in DOMAIN seq}

\* The rows named in the weight table, stated on sets.
ShapesOf(f) ==
    IF f.suitableFaceShapes = Null THEN {} ELSE Range(f.suitableFaceShapes[1])
ShapeFits(crit, f) == crit.faceShape \in ShapesOf(f)
SizeFits(crit, f) == f.size \in Range(crit.recommendedSizes)
ColorFits(crit, f) == f.color \in Range(crit.recommendedColors)
StyleFits(crit, f) == f.style \in Range(crit.recommendedStyles)

\* The attribute-fit part of the weight table, in tenths.
AttributeFit(crit, f) ==
    (IF ShapeFits(crit, f) THEN 300 ELSE 0) + (IF SizeFits(crit, f) THEN 250 ELSE 0)
    + (IF ColorFits(crit, f) THEN 200 ELSE 0) + (IF StyleFits(crit, f) THEN 200 ELSE 0)

\* The stock availability rows of the weight table, in tenths.
StatusPart(f) ==
    CASE f.stockStatus = "in_stock" -> 100
      [] f.stockStatus = "low_stock" -> 50
      [] OTHER -> 0

\* The stock depth row of the weight table, in tenths: stockCount / 10
\* points are stockCount tenths, capped at 5 points.
DepthPart(f) ==
    IF f.stockCount = Null THEN 0
    ELSE IF f.stockCount[1] <= 0 THEN 0
    ELSE IF f.stockCount[1] >= 50 THEN 50
    ELSE f.stockCount[1]

\* Position of the frame with this id in an array of frames (0: absent).
PosOf(arr, id) ==
    IF \E i \in DOMAIN arr : arr[i].id = id
    THEN CHOOSE i \in DOMAIN arr : arr[i].id = id
    ELSE 0

\* The matchScore invocation c gave the frame with this id.
ScoreIn(c, id) == scoredFrames[c][PosOf(scoredFrames[c], id)].matchScore

\* x is ranked before y in what invocation c returned: whenever y is
\* returned, x is returned too, earlier.
RankedBefore(c, x, y) ==
    PosOf(result[c], y.id) # 0 =>
        (PosOf(result[c], x.id) # 0 /\ PosOf(result[c], x.id) < PosOf(result[c], y.id))

\* C1: searchFrames never returns a frame whose isActive is not true: no
\* returned frame is inactive, and no row of the table that is inactive (false
\* or null) is among the returned frames, whatever it matches.
C1_InactiveNeverReturned ==
    \A c \in CallIds :
        /\ \A i \in DOMAIN result[c] : result[c][i].isActive = Some(TRUE)
        /\ \A f \in frames :
              f.isActive # Some(TRUE) => PosOf(result[c], f.id) = 0

\* C1 witness: a call has returned fewer frames than its limit although the
\* table holds an inactive, in-stock row matching all four factors.
C1_Witness ==
    \E c \in CallIds :
        /\ Returned(c)
        /\ Len(result[c]) >= 1
        /\ Len(result[c]) < limit[c]
        /\ \E f \in frames :
              /\ f.isActive = Null
              /\ AttributeFit(criteria[c][1], f) = 950
              /\ f.stockStatus = "in_stock"
        /\ \E f \in frames :
              /\ f.isActive = Some(FALSE)
              /\ AttributeFit(criteria[c][1], f) = 950
              /\ f.stockStatus = "in_stock"

\* C2 (as claimed): a call that returns frames returns at most limit of them
\* and at most as many as there are eligible (active) rows.
C2_BoundedOutput ==
    \A c \in CallIds :
        (Returned(c) /\ result[c] # <<>>) =>
            /\ Len(result[c]) <= limit[c]
            /\ Len(result[c]) <= Len(allFrames[c])

C4_SortedTop ==
    \A c \in CallIds :
        Returned(c) =>
            /\ \A i, j \in DOMAIN result[c] :
                  i < j => ScoreIn(c, result[c][i].id) >= ScoreIn(c, result[c][j].id)
            /\ \A k \in DOMAIN scoredFrames[c] :
                  PosOf(result[c], scoredFrames[c][k].id) = 0 =>
                     \A i \in DOMAIN result[c] :
                        scoredFrames[c][k].matchScore <= ScoreIn(c, result[c][i].id)

\* C4 witness: three eligible frames with three different scores were read
\* in ascending score order, and the two best were returned, best first.
C4_Witness ==
    \E c \in CallIds :
        /\ Returned(c)
        /\ Len(scoredFrames[c]) = 3
        /\ scoredFrames[c][1].matchScore < scoredFrames[c][2].matchScore
        /\ scoredFrames[c][2].matchScore < scoredFrames[c][3].matchScore
        /\ Len(result[c]) = 2
        /\ result[c][1].id = scoredFrames[c][3].id
        /\ result[c][2].id = scoredFrames[c][2].id

\* C5: two eligible frames with equal matchScore are returned in the order
\* the catalog sequence had them, and truncation keeps the earlier one.
C5_StableTies ==
    \A c \in CallIds :
        Returned(c) =>
            \A i, j \in DOMAIN scoredFrames[c] :
                (i < j /\ scoredFrames[c][i].matchScore = scoredFrames[c][j].matchScore)
                    => RankedBefore(c, allFrames[c][i], allFrames[c][j])

\* C5 witness: of two frames that tie, the earlier one took the last place
\* of the output and the later one was cut, after a better frame that was
\* read last.
C5_Witness ==
    \E c \in CallIds :
        /\ Returned(c)
        /\ Len(scoredFrames[c]) = 3
        /\ scoredFrames[c][1].matchScore = scoredFrames[c][2].matchScore
        /\ scoredFrames[c][3].matchScore > scoredFrames[c][1].matchScore
        /\ Len(result[c]) = 2
        /\ result[c][2].id = allFrames[c][1].id
        /\ PosOf(result[c], allFrames[c][2].id) = 0

SameExcept(x, y, col) ==
    \A k \in DOMAIN x \ {"id", "name", col} : x[k] = y[k]

\* x is y with the shape factor added.
ExtraShape(crit, x, y) ==
    SameExcept(x, y, "suitableFaceShapes") /\ ShapeFits(crit, x) /\ ~ShapeFits(crit, y)

\* x is y with a better stock status.
ExtraStock(x, y) ==
    SameExcept(x, y, "stockStatus") /\ StatusPart(x) > StatusPart(y)

\* x is y with one more scoring factor.
ExtraFactor(crit, x, y) ==
    \/ ExtraShape(crit, x, y)
    \/ SameExcept(x, y, "size") /\ SizeFits(crit, x) /\ ~SizeFits(crit, y)
    \/ SameExcept(x, y, "color") /\ ColorFits(crit, x) /\ ~ColorFits(crit, y)
    \/ SameExcept(x, y, "style") /\ StyleFits(crit, x) /\ ~StyleFits(crit, y)
    \/ ExtraStock(x, y)

\* C7: of two eligible frames that are identical except that one satisfies
\* one more factor (shape, size, color, style, or a better stock status), the
\* one with the extra factor scores at least as high and is never ranked
\* after the other.
C7_Monotone ==
    \A c \in CallIds :
        Returned(c) =>
            \A i, j \in DOMAIN allFrames[c] :
                ExtraFactor(criteria[c][1], allFrames[c][i], allFrames[c][j]) =>
                    /\ scoredFrames[c][i].matchScore >= scoredFrames[c][j].matchScore
                    /\ RankedBefore(c, allFrames[c][i], allFrames[c][j])

\* C7 witness: a frame read last was returned first, ahead of a copy that
\* lacks its shape fit and a copy with a worse stock status.
C7_Witness ==
    \E c \in CallIds :
        /\ Returned(c)
        /\ Len(allFrames[c]) = 3
        /\ Len(result[c]) = 3
        /\ result[c][1].id = allFrames[c][3].id
        /\ \E j, k \in 1..2 :
              /\ ExtraShape(criteria[c][1], allFrames[c][3], allFrames[c][j])
              /\ ExtraStock(allFrames[c][3], allFrames[c][k])

\* C8: an eligible frame matching all four attribute factors, out_of_stock and
\* with stockCount 0 scores 95 and is ranked before every eligible frame that
\* matches no attribute factor, which scores at most 15.
C8_FitDominatesStock ==
    \A c \in CallIds :
        Returned(c) =>
            \A i, j \in DOMAIN allFrames[c] :
                ( /\ AttributeFit(criteria[c][1], allFrames[c][i]) = 950
                  /\ allFrames[c][i].stockStatus = "out_of_stock"
                  /\ allFrames[c][i].stockCount = Some(0)
                  /\ AttributeFit(criteria[c][1], allFrames[c][j]) = 0 )
                =>
                    /\ scoredFrames[c][i].matchScore = 950
                    /\ scoredFrames[c][j].matchScore <= 150
                    /\ RankedBefore(c, allFrames[c][i], allFrames[c][j])

\* C8 witness: the sold-out perfect match was read after an in-stock frame
\* with 60 in stock that matches nothing, and was returned before it.
C8_Witness ==
    \E c \in CallIds :
        /\ Returned(c)
        /\ \E i, j \in DOMAIN allFrames[c] :
              /\ j < i
              /\ AttributeFit(criteria[c][1], allFrames[c][i]) = 950
              /\ allFrames[c][i].stockStatus = "out_of_stock"
              /\ allFrames[c][i].stockCount = Some(0)
              /\ AttributeFit(criteria[c][1], allFrames[c][j]) = 0
              /\ allFrames[c][j].stockStatus = "in_stock"
              /\ allFrames[c][j].stockCount = Some(60)
              /\ PosOf(result[c], allFrames[c][j].id) # 0
              /\ PosOf(result[c], allFrames[c][i].id) # 0

\* C9 (as claimed): stock signals only break ties: a frame whose attribute
\* fit is strictly greater than another's is ranked before it.
C9_StockOnlyBreaksTies ==
    \A c \in CallIds :
        Returned(c) =>
            \A i, j \in DOMAIN allFrames[c] :
                AttributeFit(criteria[c][1], allFrames[c][i])
                    > AttributeFit(criteria[c][1], allFrames[c][j])
                => RankedBefore(c, allFrames[c][i], allFrames[c][j])

\* C9 (amended): a frame whose attribute fit exceeds another's by more than
\* 15 points, the largest stock part, scores strictly higher and is ranked
\* before it, whatever the stockStatus and stockCount of the two.
C9_FitBeyondStockRange ==
    \A c \in CallIds :
        Returned(c) =>
            \A i, j \in DOMAIN allFrames[c] :
                AttributeFit(criteria[c][1], allFrames[c][i])
                    - AttributeFit(criteria[c][1], allFrames[c][j]) > 150
                =>
                    /\ scoredFrames[c][i].matchScore > scoredFrames[c][j].matchScore
                    /\ RankedBefore(c, allFrames[c][i], allFrames[c][j])

\* C9 witness: a frame with no stock part was read after a frame with a
\* stock part of 12.5 whose attribute fit is 20 points lower, and was
\* returned before it.
C9_Witness ==
    \E c \in CallIds :
        /\ Returned(c)
        /\ \E i, j \in DOMAIN allFrames[c] :
              /\ j < i
              /\ AttributeFit(criteria[c][1], allFrames[c][i])
                    - AttributeFit(criteria[c][1], allFrames[c][j]) = 200
              /\ StatusPart(allFrames[c][i]) + DepthPart(allFrames[c][i]) = 0
              /\ StatusPart(allFrames[c][j]) + DepthPart(allFrames[c][j]) = 125
              /\ PosOf(result[c], allFrames[c][j].id) # 0
              /\ PosOf(result[c], allFrames[c][i].id) # 0

\* The seeded scenario has been run: catalog A, B, C, the scenario's
\* criteria, limit 2.
ScenarioRun(c) ==
    /\ Returned(c)
    /\ frames = {FrameA, FrameB, FrameC}
    /\ criteria[c] = Some(ScenarioCriteria)
    /\ limit[c] = 2

\* C10: in the seeded scenario the scores are A = 107.5, B = 11.8 and
\* C = 106.2 and searchFrames returns exactly [A, C].
C10_Scenario ==
    \A c \in CallIds :
        ScenarioRun(c) =>
            /\ ScoreIn(c, "A") = 1075
            /\ ScoreIn(c, "B") = 118
            /\ ScoreIn(c, "C") = 1062
            /\ result[c] = <<FrameA, FrameC>>

\* C10 witness: the scenario was run on the rows read in the order B, C, A.
C10_Witness ==
    \E c \in CallIds :
        /\ ScenarioRun(c)
        /\ allFrames[c] = <<FrameB, FrameC, FrameA>>

\* The rows of the table that the query selects.
ActiveRows == {f \in frames : f.isActive = Some(TRUE)}

\* C13: on an empty catalog, or one whose rows are all inactive, a call with
\* a positive limit raises no error and returns the empty sequence, whatever
\* the criteria.
C13_EmptyCatalogReturnsEmpty ==
    \A c \in CallIds :
        (pc[c] # "idle" /\ limit[c] > 0 /\ ActiveRows = {}) =>
            /\ pc[c] \in {"select", "returned"}
            /\ Returned(c) => (allFrames[c] = <<>> /\ result[c] = <<>>)

\* C13 witness: a call with a positive limit has returned nothing from a
\* catalog of two inactive rows (one false, one null) that match all four
\* factors of its criteria.
C13_Witness ==
    \E c \in CallIds :
        /\ Returned(c)
        /\ limit[c] > 0
        /\ Cardinality(frames) = 2
        /\ \E f, g \in frames :
              /\ f.isActive = Some(FALSE)
              /\ g.isActive = Null
              /\ AttributeFit(criteria[c][1], f) = 950
              /\ AttributeFit(criteria[c][1], g) = 950
        /\ result[c] = <<>>

\* No token of the sequence is a value of the vocabulary (none at all, for
\* an empty sequence).
NoKnownToken(tokens, vocabulary) == Range(tokens) \cap vocabulary = {}

\* The four attribute rows of the weight table, one at a time, in tenths.
ShapePoints(crit, f) == IF ShapeFits(crit, f) THEN 300 ELSE 0
SizePoints(crit, f) == IF SizeFits(crit, f) THEN 250 ELSE 0
ColorPoints(crit, f) == IF ColorFits(crit, f) THEN 200 ELSE 0
StylePoints(crit, f) == IF StyleFits(crit, f) THEN 200 ELSE 0

\* C14: criteria tokens outside the vocabulary, tokens that differ from a
\* catalog value only in letter case, and empty recommendation sequences raise
\* no error: the factor that references them adds 0 to the score of every
\* frame, and the score is the sum of the remaining factors.
C14_UnknownTokensScoreZero ==
    \A c \in CallIds :
        Returned(c) =>
            \A i \in DOMAIN scoredFrames[c] :
                LET crit == criteria[c][1]
                    f == allFrames[c][i]
                    s == scoredFrames[c][i].matchScore
                    stock == StatusPart(f) + DepthPart(f)
                IN  /\ crit.faceShape \notin FaceShapes =>
                          s = SizePoints(crit, f) + ColorPoints(crit, f)
                              + StylePoints(crit, f) + stock
                    /\ NoKnownToken(crit.recommendedSizes, FrameSizes) =>
                          s = ShapePoints(crit, f) + ColorPoints(crit, f)
                              + StylePoints(crit, f) + stock
                    /\ NoKnownToken(crit.recommendedColors, FrameColors) =>
                          s = ShapePoints(crit, f) + SizePoints(crit, f)
                              + StylePoints(crit, f) + stock
                    /\ NoKnownToken(crit.recommendedStyles, FrameStyles) =>
                          s = ShapePoints(crit, f) + SizePoints(crit, f)
                              + ColorPoints(crit, f) + stock

\* C14 witness: a call whose face shape, size and style tokens differ from
\* the catalog values in letter case only, and whose colors are one such token
\* and one exact token, scored frame A (which an exact classification gives
\* 107.5) at its stock part alone, 12.5, and frame C at 20 for its color plus
\* its stock part, 31.2.
C14_Witness ==
    \E c \in CallIds :
        /\ Returned(c)
        /\ criteria[c][1].faceShape = "Oval"
        /\ criteria[c][1].recommendedColors = <<"gold", "Tortoise">>
        /\ PosOf(scoredFrames[c], "A") # 0
        /\ PosOf(scoredFrames[c], "C") # 0
        /\ ScoreIn(c, "A") = 125
        /\ ScoreIn(c, "C") = 312

\* C15: every returned element is an active row of the table with every
\* column as the table has it, no row is returned twice, and no returned
\* element has a matchScore field.
C15_FramesOnlyNoScore ==
    \A c \in CallIds :
        Returned(c) =>
            /\ \A i \in DOMAIN result[c] :
                  /\ result[c][i] \in ActiveRows
                  /\ "matchScore" \notin DOMAIN result[c][i]
            /\ \A i, j \in DOMAIN result[c] :
                  i # j => result[c][i].id # result[c][j].id

\* C15 witness: a call returned two of three scored rows, each of which
\* carried a matchScore while it was ranked.
C15_Witness ==
    \E c \in CallIds :
        /\ Returned(c)
        /\ Len(scoredFrames[c]) = 3
        /\ Len(result[c]) = 2
        /\ \A i \in DOMAIN scoredFrames[c] :
              "matchScore" \in DOMAIN scoredFrames[c][i]

\* C16: for every frame the stock part of the score (status bonus plus depth
\* bonus) is between 0 and 15 and the score between 0 and 110; the depth bonus
\* is 0 for a null or zero stockCount, stockCount / 10 for 0 < stockCount < 50
\* and 5 from 50 on; so the stock part is below 20, the smallest attribute
\* weight.
C16_StockPartRange ==
    \A c \in CallIds :
        Returned(c) =>
            \A i \in DOMAIN scoredFrames[c] :
                LET f == allFrames[c][i]
                    s == scoredFrames[c][i].matchScore
                    stock == s - AttributeFit(criteria[c][1], f)
                    depth == stock - StatusPart(f)
                    count == f.stockCount
                IN  /\ 0 <= stock /\ stock <= 15 * Scale
                    /\ 0 <= s /\ s <= 110 * Scale
                    /\ (count = Null \/ count = Some(0)) => depth = 0
                    /\ (count # Null /\ 0 < count[1] /\ count[1] < 50) =>
                          depth * 10 = count[1] * Scale
                    /\ (count # Null /\ count[1] >= 50) => depth = 5 * Scale
                    /\ stock < 20 * Scale

\* C16 witness: a frame in stock with a stockCount above 50 that matches all
\* four factors was scored 110, its stock part the full 15.
C16_Witness ==
    \E c \in CallIds :
        /\ Returned(c)
        /\ \E i \in DOMAIN scoredFrames[c] :
              /\ allFrames[c][i].stockCount # Null
              /\ allFrames[c][i].stockCount[1] > 50
              /\ allFrames[c][i].stockStatus = "in_stock"
              /\ AttributeFit(criteria[c][1], allFrames[c][i]) = 95 * Scale
              /\ scoredFrames[c][i].matchScore = 110 * Scale

\* The string is a positive integer in decimal notation.
IsPositiveIntegerString(str) ==
    /\ str # <<>>
    /\ \A i \in DOMAIN str : IsDigit(str[i], 10)
    /\ \E i \in DOMAIN str : str[i] # "0"

\* A request of POST /api/search-frames has been received.
SearchRequested == rpc # "idle" /\ req.route = "POST /api/search-frames"

\* C11 (as claimed): a limit that is not a positive integer is rejected with
\* an error before any scoring and no frames are returned: a direct call with
\* such a limit does not return and scores nothing, and POST
\* /api/search-frames with such a limit query value scores nothing and sends
\* no response with frames.
C11_InvalidLimitRejected ==
    /\ \A c \in CallIds :
          (rpc = "idle" /\ pc[c] # "idle" /\ limit[c] <= 0) =>
              /\ ~Returned(c)
              /\ scoredFrames[c] = <<>>
              /\ result[c] = <<>>
    /\ (SearchRequested /\ req.query # Null
            /\ ~IsPositiveIntegerString(req.query[1])) =>
          /\ scoredFrames[1] = <<>>
          /\ \A i \in DOMAIN res : res[i].status # 200

\* C12: a call without the limit argument runs with limit 5, POST
\* /api/search-frames without a limit query parameter calls searchFrames with
\* limit 5, and a call with limit 5 returns at most 5 frames.
C12_DefaultLimitFive ==
    /\ [][\A crit \in CriteriaUniverse :
            SearchFramesCall(1, crit, Null) => limit'[1] = 5]_vars
    /\ []((SearchRequested /\ req.query = Null /\ pc[1] # "idle") => limit[1] = 5)
    /\ [](\A c \in CallIds :
            (Returned(c) /\ limit[c] = 5) => Len(result[c]) <= 5)

\* C12 witness: POST /api/search-frames without a limit query parameter was
\* answered with 5 of the 6 active frames of the catalog.
C12_Witness ==
    /\ SearchRequested
    /\ rpc = "done"
    /\ req.query = Null
    /\ Len(allFrames[1]) = 6
    /\ Len(res) = 1
    /\ res[1].status = 200
    /\ Len(res[1].body.frames) = 5

\* The value is the static fallback record: face shape oval, colors Black and
\* Tortoise, styles Rectangle and Aviator, confidence 0.5.
IsStaticFallback(value) ==
    /\ value # Null
    /\ value[1].faceShape = "oval"
    /\ value[1].recommendedColors = <<"Black", "Tortoise">>
    /\ value[1].recommendedStyles = <<"Rectangle", "Aviator">>
    /\ value[1].confidence = 50

\* C17: analyzeFacialFeatures calls the model at most 3 times and never
\* throws; an attempt whose response passes the validation returns that
\* object at once; any other return is the static fallback record; and the
\* call terminates by returning.
C17_RetryBoundedFallback ==
    /\ [](generated <= 3 /\ apc # "threw")
    /\ [][\A text \in ResponseTexts :
            (GenerateContentResolves(text) /\ tryError(text) = Null) =>
                (apc' = "returned" /\ returned' = Some(text.value))]_vars
    /\ [][(apc # "returned" /\ apc' = "returned") =>
            \/ \E text \in ResponseTexts :
                  tryError(text) = Null /\ GenerateContentResolves(text)
            \/ IsStaticFallback(returned')]_vars
    /\ <>(apc = "returned")

\* C17 witness: the fallback was returned after three calls of the model,
\* the last of which failed with a 503.
C17_Witness ==
    /\ apc = "returned"
    /\ generated = 3
    /\ attempt = 3
    /\ lastError # Null
    /\ lastError[1].status = Some(503)
    /\ IsStaticFallback(returned)

\* A well-typed FacialAttributes record: a face shape of the enumeration and
\* exactly two values of the vocabulary in each recommendation sequence.
WellTypedAttributes(a) ==
    /\ "faceShape" \in DOMAIN a /\ a.faceShape \in FaceShapes
    /\ "recommendedSizes" \in DOMAIN a
    /\ Len(a.recommendedSizes) = 2 /\ Range(a.recommendedSizes) \subseteq FrameSizes
    /\ "recommendedColors" \in DOMAIN a
    /\ Len(a.recommendedColors) = 2 /\ Range(a.recommendedColors) \subseteq FrameColors
    /\ "recommendedStyles" \in DOMAIN a
    /\ Len(a.recommendedStyles) = 2 /\ Range(a.recommendedStyles) \subseteq FrameStyles

\* C18 (as claimed): the fallback returned when all attempts fail is a
\* well-typed FacialAttributes record with exactly two sizes, two colors and
\* two styles, and searchFrames scores it like a classification with the same
\* values: a frame of a size the fallback names earns the size factor.
C18_FallbackWellTyped ==
    (apc = "returned" /\ returned = Some(FallbackAnalysis)) =>
        /\ WellTypedAttributes(returned[1])
        /\ \A f \in FrameUniverse :
              f.size = "Medium" =>
                  sizeScore(searchCriteria(returned[1]), f) = 25 * Scale

\* A request of POST /api/analyze-face with a photo has been received.
AnalyzeRequested ==
    rpc # "idle" /\ req.route = "POST /api/analyze-face" /\ req.file

\* C19: in POST /api/analyze-face the analysis record is saved only after
\* the extraction returned, and searchFrames is called only after it was
\* saved; when the extraction fails nothing is saved and no match is run; and
\* no step of searchFrames changes the analysis log.
C19_SavedAfterExtractionBeforeSearch ==
    /\ [](AnalyzeRequested =>
            /\ analysisResults # <<>> =>
                  /\ analysis # Null
                  /\ Len(analysisResults) = 1
                  /\ analysisResults[1].faceShape = analysis[1].faceShape
                  /\ analysisResults[1].sessionId = req.sessionId
            /\ pc[1] # "idle" => Len(analysisResults) = 1
            /\ analysis = Null => (analysisResults = <<>> /\ pc[1] = "idle"))
    /\ [][pc' # pc => analysisResults' = analysisResults]_vars

\* C19 witness: a request was answered 200 with recommended frames, its
\* analysis saved once under the generated session id.
C19_Witness ==
    /\ AnalyzeRequested
    /\ rpc = "done"
    /\ Len(res) = 1
    /\ res[1].status = 200
    /\ Len(res[1].body.recommendedFrames) >= 2
    /\ Len(analysisResults) = 1
    /\ analysisResults[1].sessionId = "uuid-1"

\* The request failed in the extraction, in saveAnalysis or in the catalog
\* fetch of searchFrames.
CollaboratorFailed ==
    /\ AnalyzeRequested
    /\ rpc = "done"
    /\ analysis = Null \/ analysisResults = <<>> \/ pc[1] = "threw"

\* C20: when the extraction throws, or saveAnalysis or the catalog fetch of
\* searchFrames fails, the request ends with exactly one response: 500 with
\* the generic try-again message and neither analysis nor recommended frames;
\* and a request never gets a second response or stops before its response.
C20_FailureIsOneGeneric500 ==
    /\ Len(res) <= 1
    /\ (rpc \notin {"idle", "done"}) => (res = <<>> /\ ENABLED NextAnalyze)
    /\ CollaboratorFailed =>
          /\ Len(res) = 1
          /\ res[1].status = 500
          /\ DOMAIN res[1].body = {"message"}
          /\ res[1].body.message =
                "Failed to analyze face. Please ensure you have a clear photo and try again."

\* C20 witness: the catalog fetch failed after the analysis was saved, and
\* the request was answered 500.
C20_Witness ==
    /\ CollaboratorFailed
    /\ pc[1] = "threw"
    /\ Len(analysisResults) = 1
    /\ res = <<AnalyzeFailed>>

\* C21 (as claimed): the query strategy and the scoring strategy of
\* searchFrames, called with the same criteria and the same limit on the same
\* catalog, return the same ordered sequence of frames.
C21_StrategiesAgree ==
    (pc[1] = "returned" /\ pc[2] = "returned") => result[2] = result[1]

\* C22: under every interleaving of two invocations of searchFrames and of
\* inserts into the catalog, a step of one invocation (or an insert) leaves
\* the arguments, candidate list, scores and output of the other invocation
\* as they were; the candidate list of an invocation is the active rows of
\* the catalog at the step that read it; and what an invocation returned is
\* what searchFrames returns on its own arguments and its own candidate list.
C22_InvocationsIndependent ==
    /\ [][\A c \in CallIds :
            pc'[c] = pc[c] =>
                /\ criteria'[c] = criteria[c]
                /\ limit'[c] = limit[c]
                /\ allFrames'[c] = allFrames[c]
                /\ scoredFrames'[c] = scoredFrames[c]
                /\ result'[c] = result[c]]_vars
    /\ [][\A c \in CallIds :
            (pc[c] = "select" /\ pc'[c] = "returned") =>
                /\ Range(allFrames'[c]) = ActiveRows
                /\ Len(allFrames'[c]) = Cardinality(ActiveRows)]_vars
    /\ [](\A c \in CallIds :
            Returned(c) =>
                /\ criteria[c] \in {Some(crit) : crit \in ConcurrentCriteria}
                /\ scoredFrames[c] = ScoreAll(criteria[c][1], allFrames[c])
                /\ result[c] \in searchFrames(criteria[c][1], allFrames[c], limit[c]))

\* C22 witness: both invocations have returned, with different criteria, on
\* different snapshots of the catalog (a row was inserted between their
\* reads), and with different first frames.
C22_Witness ==
    /\ Returned(1) /\ Returned(2)
    /\ criteria[1] # criteria[2]
    /\ Len(allFrames[1]) = 3
    /\ Len(allFrames[2]) = 2
    /\ limit[1] = 1 /\ limit[2] = DefaultLimit
    /\ result[1] # <<>> /\ result[2] # <<>>
    /\ result[1][1] # result[2][1]

\* C23: no step of an invocation of searchFrames (its call, its return)
\* changes the frames table or the analysis_results table: both are exactly
\* as before the step, every row and every column; and the rows an
\* invocation read are still in the table, unchanged, after it returned.
C23_NoSideEffects ==
    /\ [][(\E c \in CallIds : pc'[c] # pc[c]) =>
            (frames' = frames /\ analysisResults' = analysisResults)]_vars
    /\ [](\A c \in CallIds :
            Returned(c) => Range(allFrames[c]) \subseteq frames)

\* C23 witness: an invocation returned frames of a catalog of three rows
\* (one inserted before its read) and the analysis log has a row.
C23_Witness ==
    /\ Returned(1)
    /\ pc[2] = "idle"
    /\ Len(result[1]) = 3
    /\ Range(result[1]) = frames
    /\ Len(analysisResults) = 1

\* A retry: a call of the model that is not the first of the invocation.
Retry == generated >= 1 /\ generated' = generated + 1

\* C24: analyzeFacialFeatures makes a further attempt only after an overload
\* failure (status 503, or a message with overloaded or UNAVAILABLE) of
\* attempt 1 or 2; a failure of any other kind (empty response, text that
\* does not parse, a missing field, another status) ends the loop on that
\* attempt with the fallback; and after a return no attempt is made.
C24_RetryOnlyAfterOverload ==
    /\ [][Retry =>
            /\ lastError # Null
            /\ isOverloaded(lastError[1])
            /\ attempt \in {1, 2}
            /\ attempt' = attempt + 1]_vars
    /\ [][\A error \in ApiErrors :
            (GenerateContentRejects(error) /\ ~isOverloaded(error)) =>
                /\ apc' = "returned"
                /\ IsStaticFallback(returned')
                /\ generated' = generated]_vars
    /\ [][\A text \in ResponseTexts :
            (GenerateContentResolves(text) /\ tryError(text) # Null) =>
                /\ apc' = "returned"
                /\ IsStaticFallback(returned')
                /\ generated' = generated]_vars
    /\ [][apc = "returned" =>
            (apc' = "returned" /\ generated' = generated /\ returned' = returned)]_vars

\* C24 witness: attempt 1 failed with an overload and was retried, attempt 2
\* got a response without a field, and the fallback was returned with no
\* third attempt.
C24_Witness ==
    /\ apc = "returned"
    /\ generated = 2
    /\ attempt = 2
    /\ lastError = Some(InvalidFormat)
    /\ IsStaticFallback(returned)

\* C25 (as claimed): the waits of analyzeFacialFeatures follow the backoff
\* 2 s, 4 s, 6 s: the waits made so far are the first of 2000, 4000, 6000 in
\* that order, every retry was preceded by a wait, and a call whose three
\* attempts all failed with an overload has made the three waits.
C25_BackoffSchedule ==
    /\ \E k \in 0..3 : delays = SubSeq(<<2000, 4000, 6000>>, 1, k)
    /\ generated >= 1 => Len(delays) >= generated - 1
    /\ (apc = "returned" /\ generated = 3 /\ lastError # Null
                         /\ isOverloaded(lastError[1])) =>
          delays = <<2000, 4000, 6000>>

\* The frame of a response element: the element without its virtualTryOn.
WithoutTryOn(element) == [k \in DOMAIN element \ {"virtualTryOn"} |-> element[k]]

\* C26: in POST /api/analyze-face the try-on loop pushes one entry per
\* recommended frame, in order, whatever the outcome of each try-on call, and
\* always goes on to the next frame or to the response; the response's
\* recommendedFrames are the frames the matcher returned (at most 5), same
\* length and order, each with the virtualTryOn of the one entry pushed for
\* its own id; a failed try-on leaves the preview text that names the frame.
C26_TryOnPerFrame ==
    /\ rpc = "generateVirtualTryOn" =>
          /\ res = <<>>
          /\ Len(framesWithTryOn) <= Len(result[1])
          /\ \A i \in DOMAIN framesWithTryOn :
                framesWithTryOn[i].frameId = result[1][i].id
          /\ ENABLED NextTryOn
    /\ (AnalyzeRequested /\ rpc = "done" /\ pc[1] = "returned") =>
          /\ Len(res) = 1
          /\ res[1].status = 200
          /\ LET out == res[1].body.recommendedFrames
             IN  /\ Len(out) = Len(result[1])
                 /\ Len(out) <= 5
                 /\ \A i \in DOMAIN out :
                       /\ WithoutTryOn(out[i]) = result[1][i]
                       /\ out[i].virtualTryOn # Null
                       /\ Cardinality({j \in DOMAIN framesWithTryOn :
                                         framesWithTryOn[j].frameId = out[i].id}) = 1
                       /\ \E j \in DOMAIN framesWithTryOn :
                             /\ framesWithTryOn[j].frameId = out[i].id
                             /\ out[i].virtualTryOn[1] =
                                   [imageBase64 |-> framesWithTryOn[j].virtualTryOnImage,
                                    description |-> framesWithTryOn[j].description]
                       /\ out[i].virtualTryOn[1].description[1] = "Virtual" =>
                             out[i].virtualTryOn[1].description[4] = out[i].name

\* C26 witness: on a catalog of six rows the response has five frames; the
\* try-on of the second failed (the photo and the preview text), the others
\* have the generated image.
C26_Witness ==
    /\ AnalyzeRequested
    /\ rpc = "done"
    /\ Cardinality(frames) = 6
    /\ Len(res) = 1
    /\ res[1].status = 200
    /\ Len(res[1].body.recommendedFrames) = 5
    /\ \A i \in {1, 3, 4, 5} :
          res[1].body.recommendedFrames[i].virtualTryOn[1].imageBase64 = "generated image"
    /\ res[1].body.recommendedFrames[2].virtualTryOn[1].imageBase64 = "photo"

\* A request of POST /api/analyze-face without a photo has been received.
NoPhotoRequested ==
    rpc # "idle" /\ req.route = "POST /api/analyze-face" /\ ~req.file

\* C27: POST /api/analyze-face without an uploaded photo is answered 400
\* "No photo provided" at once, and the handler is over: the extraction is
\* not called, nothing is saved, searchFrames is not called, and no step
\* follows.
C27_NoPhotoIs400 ==
    NoPhotoRequested =>
        /\ rpc = "done"
        /\ Len(res) = 1
        /\ res[1].status = 400
        /\ res[1].body = [message |-> "No photo provided"]
        /\ analysis = Null
        /\ analysisResults = <<>>
        /\ pc[1] = "idle"
        /\ framesWithTryOn = <<>>
        /\ ~ENABLED NextAnalyze

\* C27 witness: a request without a photo, with a session id, was answered.
C27_Witness ==
    /\ NoPhotoRequested
    /\ req.sessionId = "session-1"
    /\ frames # {}
    /\ res = <<NoPhoto>>

\* The wizard is at one of its four steps.
StepInRange == currentStep \in {0, 1, 2, 3}

\* The results step has an analysis to show.
ResultsHaveAnalysis == currentStep = 3 => analysisResult # Null

\* Past the capture step the page holds a photo.
PhotoPastCapture == currentStep \in {1, 2, 3} => capturedPhoto # Null

\* handleStartOver clears the photo, its URL and the results and returns to
\* step 0; handleRetakePhoto keeps the results.
StartOverAndRetake ==
    /\ [][HandleStartOver =>
            /\ capturedPhoto' = Null /\ photoUrl' = <<>>
            /\ analysisResult' = Null /\ recommendedFrames' = <<>>
            /\ currentStep' = 0]_vars
    /\ [][HandleRetakePhoto =>
            /\ analysisResult' = analysisResult
            /\ recommendedFrames' = recommendedFrames]_vars

\* C28: in the Home wizard currentStep is in {0,1,2,3}, currentStep in
\* {1,2,3} implies that capturedPhoto is non-null, and currentStep = 3 implies
\* that analysisResult is non-null (the state part of the claim; the effects
\* of handleStartOver and handleRetakePhoto are StartOverAndRetake).
C28_WizardInvariants ==
    /\ StepInRange
    /\ PhotoPastCapture
    /\ ResultsHaveAnalysis

\* A request is sent by handleConfirmPhoto only, at step 1 and with a photo.
StartedByConfirm ==
    [][inFlight' > inFlight =>
          /\ HandleConfirmPhoto
          /\ currentStep = 1
          /\ capturedPhoto # Null]_vars

\* The completion of a request leaves the page at step 3 with the results of
\* the response, or at step 0.
CompletionLeavesStep2 ==
    [][inFlight' < inFlight =>
          \/ /\ currentStep' = 3
             /\ \E data \in AnalysisResponses :
                   /\ analysisResult' = Some(data.analysis)
                   /\ recommendedFrames' = data.recommendedFrames
          \/ currentStep' = 0]_vars

\* Step 3 is entered by onSuccess only.
Step3BySuccess ==
    [][(currentStep # 3 /\ currentStep' = 3) =>
          \E data \in AnalysisResponses : OnSuccess(data)]_vars

\* C29: in the Home wizard at most one analyze-face request is in flight at
\* a time (the part of the claim that is a state property; its other parts
\* are StartedByConfirm, CompletionLeavesStep2 and Step3BySuccess).
C29_OneRequestInFlight == inFlight <= 1

\* The rows of the session in analysis_results, in the order of their
\* insertion.
SavedFor(sessionId) ==
    SelectSeq(analysisResults, LAMBDA row : row.sessionId = sessionId)

\* C30: after any sequence of saveAnalysis calls, GET /api/analysis/:sessionId
\* answers with the row that was inserted last among those of the session
\* (so never with a row of another session), and with 404 "Analysis not
\* found" when the session has no row.
C30_LatestOfSession ==
    [][GetAnalysisResponds =>
          LET saved == SavedFor(req.sessionId)
          IN  /\ Len(res') = 1
              /\ IF saved = <<>>
                   THEN res'[1] = AnalysisNotFound
                   ELSE res'[1] = AnalysisFound(saved[Len(saved)])]_vars

\* The session has a row saved at 9.5 s and a later one saved at 10 s or
\* after, the other session has the last row of the table, and the request
\* of the session was answered with the later row of the session.
C30_Witness ==
    /\ rpc = "done"
    /\ req.route = "GET /api/analysis/:sessionId"
    /\ req.sessionId = "session-1"
    /\ Len(analysisResults) = 3
    /\ analysisResults[1].sessionId = "session-1"
    /\ analysisResults[1].createdAt = timestampText(95)
    /\ analysisResults[2].sessionId = "session-1"
    /\ analysisResults[2].createdAt = timestampText(100)
    /\ analysisResults[3].sessionId = "session-2"
    /\ res = <<AnalysisFound(analysisResults[2])>>

====
